---- MODULE Spec2Model ----
(***************************************************************************)
(* ChmlFrpLauncher: the session lifecycle coordinator.                     *)
(*   LogStore            src/src/lib/sound.ts (lines 20-83)                *)
(*   useTunnelNotifications  src/src/components/App/hooks/...              *)
(*   useTunnelList       src/src/components/pages/TunnelList/hooks/...     *)
(*   useAutoStartTunnels src/unnamed/part_002                              *)
(*   FrpcManager         src/unnamed/part_000                              *)
(* JavaScript runs the handlers on one event loop: every action below is   *)
(* one run-to-completion step (a handler up to its next await).            *)
(***************************************************************************)
EXTENDS Integers, Sequences, FiniteSets, TLC

VARIABLES
  \* ---- LogStore (sound.ts 24-80)
  logs,                 \* LogStore.logs
  listeners,            \* LogStore.listeners
  isListening,          \* LogStore.isListening
  \* ---- useTunnelNotifications refs and closure
  engineMounted,        \* the hook's effect has run (a listener is subscribed)
  activeTab,            \* the activeTab the subscribed listener closed over
  processedLogsCount,   \* processedLogsCountRef.current
  notifiedSuccess,      \* notifiedSuccessRef.current
  notifiedError,        \* notifiedErrorRef.current
  successLogAdded,      \* successLogAddedRef.current
  tunnelCache,          \* tunnelCacheRef.current
  microQ,               \* continuations of "await getTunnelById" that resolved from the cache
  fetching,             \* lookups whose fetchTunnels() is in flight
  now,                  \* Date.now()
  remoteApi,            \* what fetchTunnels() answers when it succeeds
  \* ---- observation (history variables, never read by the modelled code)
  history,              \* every line appended since construction or the last clear
  ver,                  \* number of append/clear calls made so far
  lastSeen,             \* per listener: the last snapshot handed to it
  subAt,                \* per listener: ver when it last subscribed
  nNative, nAdd, nClear, nTab,   \* how many events of each sort happened
  obs,                  \* notification counters, see ObsInit
  \* ---- useTunnelList state (useTunnelList.ts 9-25)
  tunnels,              \* tunnels; tunnelsRef.current follows it after each commit
  loading,
  error,
  runningTunnels,
  tunnelListCache,      \* tunnelListCache.tunnels (part_001 18-20)
  loads,                \* loadTunnels calls in flight
  passes,               \* periodic and reactive status checks in flight
  interval,             \* the live setInterval timers, each as the tunnels its closure holds
  unlistenFn,           \* the auto-restart listener: "none", "pending" (listen() in
                        \* flight), "registered"; after the cleanup "detached",
                        \* "tornPending" (listen() still in flight) or "leaked"
                        \* (registered, and no cleanup left to detach it)
  \* ---- useAutoStartTunnels (part_002)
  hasAutoStarted,       \* hasAutoStartedRef.current
  runs,                 \* autoStart() calls in flight
  autoStartList,        \* what autoStartTunnelsService.getAutoStartTunnels() answers
  usertoken,            \* getStoredUser()?.usertoken is set
  \* ---- observation
  toggles,              \* per composite key: "toggle on" calls made by auto-start
  lastPass,             \* the check that last called setRunningTunnels
  lastFetch,            \* what the two sources answered to the last load that merged them
  nLoads, nTicks, nSignals,
  \* ---- FrpcManager (part_000 28-141)
  frpc_proxy_config,    \* localStorage item "frpc_proxy_config"
  ipc,                  \* the FrpcManager call whose invoke() is in flight
  settled,              \* observation: the calls that returned or rejected, in order
  frpcLog               \* FrpcManager.unlisten and the "frpc-log" listeners, see NotListening

logVars == <<logs, listeners, isListening>>
engVars == <<engineMounted, activeTab, processedLogsCount, notifiedSuccess,
             notifiedError, successLogAdded, tunnelCache, microQ, fetching,
             now, remoteApi>>
obsVars == <<history, ver, lastSeen, subAt, nNative, nAdd, nClear, nTab, obs>>
listVars == <<tunnels, loading, error, runningTunnels, tunnelListCache, loads, passes,
              interval, unlistenFn>>
autoVars == <<hasAutoStarted, runs, autoStartList, usertoken>>
listObs == <<toggles, lastPass, lastFetch, nLoads, nTicks, nSignals>>
storeAll == <<logVars, engVars, obsVars>>
listAll == <<listVars, autoVars, listObs>>
mgrVars == <<frpc_proxy_config, ipc, settled, frpcLog>>

(***************************************************************************)
(* Bounds of the model.                                                    *)
(***************************************************************************)
\* LogStore.maxLogs is 5000 (sound.ts 28); the model runs the same code with a
\* capacity small enough for eviction to happen within the event bounds.
maxLogs == 4
MaxNative == 4        \* native "frpc-log" events
MaxAdd == 1           \* addLog calls made by other callers than the engine (SpecLog)
MaxClear == 1         \* clearLogs calls
MaxTab == 1           \* activeTab changes (each re-subscribes the engine)
MaxLoads == 2         \* loadTunnels calls: the one at mount and refreshTunnels
MaxTicks == 1         \* firings of the 5000ms interval
MaxSignals == 1       \* "tunnel-auto-restarted" events
MaxStarts == 2        \* logStore.startListening calls

\* The "frpc-log" side of FrpcManager (part_000 114-132): `unlisten` is what
\* this.unlisten refers to ("undefined", a listener that is "live", or one
\* already "detached"), `pending` counts listen() calls not yet resolved and
\* `live` the registered listeners.  `calls` and `overlap` are observations:
\* startListening calls made, and whether one was made while a listen() was
\* pending.
NotListening ==
  [unlisten |-> "undefined", pending |-> 0, live |-> 0, calls |-> 0, overlap |-> FALSE]

(***************************************************************************)
(* Log lines.  LogMessage = {tunnel_id, message, timestamp} (part_000 5-9). *)
(* The code only ever asks a message whether it includes a marker, so a    *)
(* message is the set of the substrings of interest it contains.  The      *)
(* timestamp is never read and is left out.  "src" is not a field of the   *)
(* program's LogMessage: it records which session's process (or the        *)
(* launcher) emitted the line, for the observations only.                  *)
(***************************************************************************)
LAUNCHED == "frpc process started"     \* "frpc 进程已启动"  (useTunnelNotifications.ts 63)
SUCCESS  == "mapping start success"    \* "映射启动成功"     (69, 118)
OKWORD   == "start success"            \* "启动成功"         (60); a substring of SUCCESS
FAILED   == "start failed"             \* "启动失败"         (126)
TAG      == "[ChmlFrpLauncher]"        \* (59)

includes(message, s) == s \in message

\* The messages the native layer emits in the model.  A message with
\* "映射启动成功" also includes "启动成功".
MsgLaunched == {LAUNCHED}
MsgSuccess  == {SUCCESS, OKWORD}
MsgFailed   == {FAILED}
NativeMessages == {MsgLaunched, MsgSuccess, MsgFailed}

TunnelIds == {7}
Kinds == {"api", "custom"}
\* The lines of the provisioned session 7, and those of both sessions with id 7.
ApiLines == [tunnel_id : TunnelIds, message : NativeMessages, src : {"api"}]
KindLines == [tunnel_id : TunnelIds, message : NativeMessages, src : Kinds]

Engine == "engine"
Viewers == {"v1", "v2"}
Listeners == {Engine} \cup Viewers

(***************************************************************************)
(* LogStore                                                                *)
(***************************************************************************)
\* A trim that keeps the oldest maxLogs lines, slice(0, maxLogs).
trimLogsOldest(l) ==
  IF Len(l) > maxLogs THEN SubSeq(l, 1, maxLogs) ELSE l

\* this.logs.slice(-this.maxLogs) when longer than maxLogs (sound.ts 75-79)
trimLogs(l) ==
  IF Len(l) > maxLogs THEN SubSeq(l, Len(l) - maxLogs + 1, Len(l)) ELSE l

\* push + trimLogs (sound.ts 38-39, 63-64)
pushLog(l, log) == trimLogs(Append(l, log))

\* [...this.logs] (sound.ts 46, 54, 69)
copyOf(l) == l

(***************************************************************************)
(* useTunnelNotifications: the metadata lookup                             *)
(***************************************************************************)
\* Tunnel (services/api): the fields the hook reads.
HttpTunnel == [id |-> 7, name |-> "web", type |-> "http", dorp |-> "a.example.com"]
TcpTunnel  == [id |-> 7, name |-> "game", type |-> "tcp", dorp |-> "25565"]
\* A tunnel named "映射启动成功" whose domain reads "frpc 进程已启动".
MarkerTunnel == [id |-> 7, name |-> SUCCESS, type |-> "https", dorp |-> LAUNCHED]
\* The provisioned lists the remote catalog may hold.
RemoteLists == {<<HttpTunnel>>, <<TcpTunnel>>}

CacheTtl == 30000     \* useTunnelNotifications.ts 25

\* new Map(); tunnels.forEach(t => nextMap.set(t.id, t))  (31-34): a later
\* entry with the same id replaces an earlier one.
MapOf(list) ==
  [i \in {list[k].id : k \in DOMAIN list} |->
     LET K == {k \in DOMAIN list : list[k].id = i}
     IN list[CHOOSE k \in K : \A j \in K : j <= k]]

\* Map.get: <<>> stands for undefined, <<t>> for a tunnel.
MapGet(m, id) == IF id \in DOMAIN m THEN <<m[id]>> ELSE <<>>

\* now - cache.updatedAt < 30000 && cache.data.size > 0  (25)
cacheFresh(cache, t) ==
  t - cache.updatedAt < CacheTtl /\ Cardinality(DOMAIN cache.data) > 0

\* getTunnelById up to its first await (22-30), called at time t for line
\* id; ep and src are observation stamps.  A hit resolves at once with the
\* cached entry; a miss starts fetchTunnels() and keeps `cache` and `now`.
getTunnelById(cache, t, id, ep) ==
  IF cacheFresh(cache, t)
  THEN [tunnelId |-> id, hit |-> TRUE, res |-> MapGet(cache.data, id),
        at |-> t, ep |-> ep]
  ELSE [tunnelId |-> id, hit |-> FALSE, res |-> MapGet(cache.data, id),
        at |-> t, ep |-> ep]

\* String.prototype.toLowerCase on the protocol names (80)
toLowerCase(s) ==
  CASE s = "HTTP" -> "http" [] s = "HTTPS" -> "https"
    [] s = "TCP" -> "tcp" [] s = "UDP" -> "udp" [] OTHER -> s

\* A friendly line that never mentions the link.
friendlyMessageNoLink(tunnelName, link) == {TAG, OKWORD, tunnelName}

\* The message of the friendly line (97-109): with a link
\* `[I] [ChmlFrpLauncher] 隧道"<name>"启动成功，您可以通过"<link>"访问。`,
\* without `[I] [ChmlFrpLauncher] 隧道"<name>"启动成功。`
friendlyMessage(tunnelName, link) ==
  IF link # "" THEN {TAG, OKWORD, tunnelName, link} ELSE {TAG, OKWORD, tunnelName}

\* The continuation after "await getTunnelById" (77-109): the lines it
\* hands to logStore.addLog, none or one.
friendlyLines(tunnelId, res) ==
  IF res = <<>> THEN <<>>
  ELSE LET tunnel == res[1]
           tunnelType == toLowerCase(tunnel.type)
       IN IF tunnelType # "http" /\ tunnelType # "https" THEN <<>>
          ELSE LET link == tunnel.dorp
                   tunnelName == IF tunnel.name # "" THEN tunnel.name
                                 ELSE "tunnel" \o ToString(tunnelId)
               IN <<[tunnel_id |-> tunnelId,
                     message |-> friendlyMessage(tunnelName, link),
                     src |-> "launcher"]>>

(***************************************************************************)
(* Observations.  Counters are kept per numeric tunnel id, as the hook     *)
(* keys its sets, and start again at each processed "launched" marker of   *)
(* that id (one notification epoch); the o* counters are kept per session  *)
(* (kind, id) and start again at that session's own "launched" marker.     *)
(* These counters stop at 2.                                               *)
(***************************************************************************)
Origins == Kinds \X TunnelIds

ObsInit ==
  [toasts    |-> [i \in TunnelIds |-> 0],      \* success toasts this epoch
   live      |-> [i \in TunnelIds |-> FALSE],  \* a success line was processed unsuppressed
   errToasts |-> [i \in TunnelIds |-> 0],
   errLive   |-> [i \in TunnelIds |-> FALSE],
   quiet     |-> [i \in TunnelIds |-> FALSE],  \* a success or failure line was processed suppressed
   seen      |-> [i \in TunnelIds |-> 0],      \* success lines processed this epoch
   spawn     |-> [i \in TunnelIds |-> 0],      \* lookups started this epoch
   friendly  |-> [i \in TunnelIds |-> 0],      \* friendly lines appended by them
   epoch     |-> [i \in TunnelIds |-> 0],      \* "launched" markers processed
   prev      |-> [i \in TunnelIds |-> FALSE],  \* a success toast in an earlier epoch
   oToasts   |-> [o \in Origins |-> 0],
   oLive     |-> [o \in Origins |-> FALSE],
   oErrToasts |-> [o \in Origins |-> 0],
   oErrLive  |-> [o \in Origins |-> FALSE],
   oEpoch    |-> [o \in Origins |-> 0],
   allToasts |-> [i \in TunnelIds |-> 0],      \* success toasts since construction
   allErrToasts |-> [i \in TunnelIds |-> 0],   \* error toasts since construction
   natives   |-> <<>>,                         \* every native line, in arrival order
   times     |-> <<>>]                         \* per line ever appended, in append order:
                                               \* how often the listener's loop ran for it

Bump(f, k) == [f EXCEPT ![k] = IF @ < 2 THEN @ + 1 ELSE 2]

ObsLaunched(ob, id, src) ==
  LET a == [ob EXCEPT !.prev[id] = @ \/ ob.toasts[id] > 0,
                      !.toasts[id] = 0, !.live[id] = FALSE,
                      !.errToasts[id] = 0, !.errLive[id] = FALSE,
                      !.quiet[id] = FALSE,
                      !.seen[id] = 0, !.spawn[id] = 0, !.friendly[id] = 0,
                      !.epoch[id] = @ + 1]
  IN IF src \in Kinds
     THEN [a EXCEPT !.oToasts[<<src, id>>] = 0, !.oLive[<<src, id>>] = FALSE,
                    !.oErrToasts[<<src, id>>] = 0, !.oErrLive[<<src, id>>] = FALSE,
                    !.oEpoch[<<src, id>>] = 1]
     ELSE a

ObsSuccess(ob, id, src, toast) ==
  LET a == [ob EXCEPT !.live[id] = TRUE,
                      !.toasts = IF toast THEN Bump(@, id) ELSE @,
                      !.allToasts[id] = IF toast THEN @ + 1 ELSE @]
  IN IF src \in Kinds
     THEN [a EXCEPT !.oLive[<<src, id>>] = TRUE,
                    !.oToasts = IF toast THEN Bump(@, <<src, id>>) ELSE @]
     ELSE a

ObsFailure(ob, id, src, toast) ==
  LET a == [ob EXCEPT !.errLive[id] = TRUE,
                      !.errToasts = IF toast THEN Bump(@, id) ELSE @,
                      !.allErrToasts[id] = IF toast THEN @ + 1 ELSE @]
  IN IF src \in Kinds
     THEN [a EXCEPT !.oErrLive[<<src, id>>] = TRUE,
                    !.oErrToasts = IF toast THEN Bump(@, <<src, id>>) ELSE @]
     ELSE a

(***************************************************************************)
(* useTunnelNotifications: the listener (42-136)                           *)
(***************************************************************************)
\* The engine's mutable state, threaded through one listener call.
CurEngine ==
  [count |-> processedLogsCount, ns |-> notifiedSuccess, ne |-> notifiedError,
   sla |-> successLogAdded, cache |-> tunnelCache, microQ |-> microQ,
   fetching |-> fetching, obs |-> obs]

\* A check that finds no launcher line in any snapshot.
hasLauncherSuccessLogNever(snap, tunnelId) == FALSE

\* logs.some(item => item.tunnel_id === tunnelId && includes "[ChmlFrpLauncher]"
\*                   && includes "启动成功")  (56-61)
hasLauncherSuccessLog(snap, tunnelId) ==
  \E k \in DOMAIN snap :
     /\ snap[k].tunnel_id = tunnelId
     /\ includes(snap[k].message, TAG)
     /\ includes(snap[k].message, OKWORD)

\* A launched marker that resets nothing.
epochResetNever(set, message, tunnelId) == set

\* notifiedSuccessRef/notifiedErrorRef/successLogAddedRef .delete(tunnelId)
\* when the message includes "frpc 进程已启动"  (63-67)
epochReset(set, message, tunnelId) ==
  IF includes(message, LAUNCHED) THEN set \ {tunnelId} ELSE set

\* !hasLauncherSuccessLog && !successLogAddedRef.current.has(tunnelId)  (70-73)
shouldSynthesize(snap, sla, tunnelId) ==
  ~hasLauncherSuccessLog(snap, tunnelId) /\ tunnelId \notin sla

\* A suppression flag that is never set.
skipNotificationsNever(tab) == FALSE

\* const skipNotifications = activeTab === "tunnels"  (51)
skipNotifications(tab) == tab = "tunnels"

\* !notifiedSuccessRef.current.has(tunnelId), !notifiedErrorRef.current.has(tunnelId)
\* (119, 127)
notNotified(set, tunnelId) == tunnelId \notin set

\* The body of "for (const log of newLogs)" for one line (54-134).
processLine(e, snap, log, tab) ==
  LET tunnelId == log.tunnel_id
      message  == log.message
      e1 == [e EXCEPT !.ns  = epochReset(@, message, tunnelId),
                      !.ne  = epochReset(@, message, tunnelId),
                      !.sla = epochReset(@, message, tunnelId),
                      !.obs = IF includes(message, LAUNCHED)
                              THEN ObsLaunched(@, tunnelId, log.src) ELSE @]
      synth == includes(message, SUCCESS) /\ shouldSynthesize(snap, e1.sla, tunnelId)
      task == getTunnelById(e1.cache, now, tunnelId, e1.obs.epoch[tunnelId])
      e2 == IF synth
            THEN [e1 EXCEPT !.sla = @ \cup {tunnelId},
                            !.microQ = IF task.hit THEN Append(@, task) ELSE @,
                            !.fetching = IF task.hit THEN @ ELSE Append(@, task),
                            !.obs.spawn = Bump(@, tunnelId)]
            ELSE e1
      e3 == IF includes(message, SUCCESS)
            THEN [e2 EXCEPT !.obs.seen = Bump(@, tunnelId)] ELSE e2
  IN IF skipNotifications(tab)
     THEN [e3 EXCEPT !.obs.quiet[tunnelId] =
                        @ \/ includes(message, SUCCESS) \/ includes(message, FAILED)]
     ELSE IF includes(message, SUCCESS)
     THEN IF notNotified(e3.ns, tunnelId)
          THEN [e3 EXCEPT !.ns = @ \cup {tunnelId},
                          !.obs = ObsSuccess(@, tunnelId, log.src, TRUE)]
          ELSE [e3 EXCEPT !.obs = ObsSuccess(@, tunnelId, log.src, FALSE)]
     ELSE IF includes(message, FAILED)
     THEN IF notNotified(e3.ne, tunnelId)
          THEN [e3 EXCEPT !.ne = @ \cup {tunnelId},
                          !.obs = ObsFailure(@, tunnelId, log.src, TRUE)]
          ELSE [e3 EXCEPT !.obs = ObsFailure(@, tunnelId, log.src, FALSE)]
     ELSE e3

\* The listener's loop ran for the line at index i of the snapshot, which
\* holds the last Len(snap) of the lines ever appended.
ObsProcessed(ob, snap, i) ==
  [ob EXCEPT !.times[Len(ob.times) - Len(snap) + i] = IF @ < 2 THEN @ + 1 ELSE 2]

RECURSIVE processFrom(_, _, _, _)
processFrom(e, snap, i, tab) ==
  IF i > Len(snap) THEN e
  ELSE LET e1 == processLine(e, snap, snap[i], tab)
       IN processFrom([e1 EXCEPT !.obs = ObsProcessed(@, snap, i)], snap, i + 1, tab)

\* A slice that ignores the cursor and starts at the first line.
firstNewFromStart(count) == 1

\* const startIndex = processedLogsCountRef.current; newLogs = logs.slice(startIndex)
\* (45-48): the index, from 1, of the first line the call processes.
firstNew(count) == count + 1

\* The listener (42-136) called with snapshot `snap`.
listener(e, snap, tab) ==
  IF Len(snap) = 0 THEN e
  ELSE IF e.count >= Len(snap) THEN e
  ELSE processFrom([e EXCEPT !.count = Len(snap)], snap, firstNew(e.count), tab)

SetEngine(e) ==
  /\ processedLogsCount' = e.count
  /\ notifiedSuccess' = e.ns
  /\ notifiedError' = e.ne
  /\ successLogAdded' = e.sla
  /\ tunnelCache' = e.cache
  /\ microQ' = e.microQ
  /\ fetching' = e.fetching
  /\ obs' = e.obs

(***************************************************************************)
(* LogStore operations, each with the listener calls it makes              *)
(***************************************************************************)
\* Nothing was handed to a listener since it (last) subscribed.
NotSeen == [snap |-> <<>>, ver |-> 0]

\* What a listener is handed: snapshot `copy`, produced by call number v.
Seen(l, copy, v) == [snap |-> copy, ver |-> v]

\* A notifyListeners that copies the buffer as it was before the call changed it.
notifyListenersStale(newLogs, v, e) ==
  LET logsCopy == copyOf(logs)
  IN /\ lastSeen' = [l \in Listeners |->
                       IF l \in listeners THEN Seen(l, logsCopy, v) ELSE lastSeen[l]]
     /\ SetEngine(IF Engine \in listeners THEN listener(e, logsCopy, activeTab) ELSE e)

\* notifyListeners (sound.ts 68-73): one copy, handed to every listener.
\* The engine's listener never calls back into the store synchronously (its
\* addLog sits behind an await), so the calls do not nest.
notifyListeners(newLogs, v, e) ==
  LET logsCopy == copyOf(newLogs)
  IN /\ lastSeen' = [l \in Listeners |->
                       IF l \in listeners THEN Seen(l, logsCopy, v) ELSE lastSeen[l]]
     /\ SetEngine(IF Engine \in listeners THEN listener(e, logsCopy, activeTab) ELSE e)

\* push, trimLogs, notifyListeners: the body shared by the native log
\* callback (sound.ts 37-41) and addLog (62-66).
appendLog(log, e) ==
  /\ logs' = pushLog(logs, log)
  /\ history' = Append(history, log)
  /\ ver' = ver + 1
  /\ notifyListeners(logs', ver', [e EXCEPT !.obs.times = Append(@, 0)])

\* A guard that never finds the store listening.
isListeningNever(flag) == FALSE

\* if (this.isListening) return;  (sound.ts 31-33)
isListeningSet(flag) == flag

\* listenToLogs up to its await (part_000 115-119): the listener that
\* this.unlisten refers to is detached, then listen() is called.
listenToLogs(f) ==
  [f EXCEPT !.live = IF f.unlisten = "live" THEN @ - 1 ELSE @,
            !.unlisten = IF f.unlisten = "live" THEN "detached" ELSE @,
            !.pending = @ + 1]

\* One call of startListening, up to its await (sound.ts 30-37).
startListeningCall ==
  /\ frpcLog.calls < MaxStarts
  /\ LET f == [frpcLog EXCEPT !.calls = @ + 1,
                              !.overlap = @ \/ frpcLog.pending > 0]
     IN IF isListeningSet(isListening)
        THEN frpcLog' = f /\ UNCHANGED isListening
        ELSE isListening' = TRUE /\ frpcLog' = listenToLogs(f)
  /\ UNCHANGED <<logs, listeners, engVars, obsVars, listAll, frpc_proxy_config, ipc,
                 settled>>

\* listen("frpc-log", ...) resolved (part_000 119-124): the listener is
\* registered and this.unlisten refers to it.
ListenSettles ==
  /\ frpcLog.pending > 0
  /\ frpcLog' = [frpcLog EXCEPT !.pending = @ - 1, !.live = @ + 1, !.unlisten = "live"]
  /\ UNCHANGED <<storeAll, listAll, frpc_proxy_config, ipc, settled>>

\* startListening (sound.ts 30-42) with listenToLogs (part_000 114-125).
startListening ==
  /\ ~isListening
  /\ isListening' = TRUE
  /\ UNCHANGED <<mgrVars, listAll, logs, listeners, engVars, obsVars>>

\* A "frpc-log" event reaches the callback registered by startListening.
NativeLog(log) ==
  /\ isListening
  /\ microQ = <<>>
  /\ nNative < MaxNative
  /\ nNative' = nNative + 1
  /\ appendLog(log, [CurEngine EXCEPT !.obs.natives = Append(@, log)])
  /\ UNCHANGED <<mgrVars, listAll, listeners, isListening, engineMounted, activeTab, now, remoteApi,
                 subAt, nAdd, nClear, nTab>>

\* The native layer emits a "frpc-log" event: each registered listener calls
\* back into the store (sound.ts 37-41), one after the other; with more than
\* one, the store's listeners are shown as notified by the last callback.
FrpcLogEvent(log) ==
  /\ frpcLog.live >= 1
  /\ microQ = <<>>
  /\ nNative < MaxNative
  /\ nNative' = nNative + 1
  /\ LET e == [CurEngine EXCEPT !.obs.natives = Append(@, log)]
     IN IF frpcLog.live = 1
        THEN appendLog(log, e)
        ELSE /\ logs' = pushLog(pushLog(logs, log), log)
             /\ history' = history \o <<log, log>>
             /\ ver' = ver + 2
             /\ notifyListeners(logs', ver', [e EXCEPT !.obs.times = @ \o <<0, 0>>])
  /\ UNCHANGED <<mgrVars, listAll, listeners, isListening, engineMounted, activeTab, now, remoteApi,
                 subAt, nAdd, nClear, nTab>>

\* addLog (sound.ts 62-66) called by another part of the application.
addLog(log) ==
  /\ microQ = <<>>
  /\ nAdd < MaxAdd
  /\ nAdd' = nAdd + 1
  /\ appendLog(log, CurEngine)
  /\ UNCHANGED <<mgrVars, listAll, listeners, isListening, engineMounted, activeTab, now, remoteApi,
                 subAt, nNative, nClear, nTab>>

\* A clear that empties the buffer and calls no listener.
clearLogsSilent ==
  /\ microQ = <<>>
  /\ nClear < MaxClear
  /\ nClear' = nClear + 1
  /\ logs' = <<>>
  /\ history' = <<>>
  /\ ver' = ver + 1
  /\ UNCHANGED <<mgrVars, listAll, listeners, isListening, engVars, lastSeen, subAt, nNative,
                 nAdd, nTab, obs>>

\* clearLogs (sound.ts 57-60)
clearLogs ==
  /\ microQ = <<>>
  /\ nClear < MaxClear
  /\ nClear' = nClear + 1
  /\ logs' = <<>>
  /\ history' = <<>>
  /\ ver' = ver + 1
  /\ notifyListeners(logs', ver', CurEngine)
  /\ UNCHANGED <<mgrVars, listAll, listeners, isListening, engineMounted, activeTab, now, remoteApi,
                 subAt, nNative, nAdd, nTab>>

\* A subscribe that adds the listener without calling it.
subscribeSilent(l) ==
  /\ microQ = <<>>
  /\ l \notin listeners
  /\ listeners' = listeners \cup {l}
  /\ subAt' = [subAt EXCEPT ![l] = ver]
  /\ UNCHANGED <<mgrVars, listAll, logs, isListening, engVars, history, ver, lastSeen, nNative, nAdd,
                 nClear, nTab, obs>>

\* subscribe (sound.ts 44-51) by a log viewer: add, then call with a copy.
subscribe(l) ==
  /\ microQ = <<>>
  /\ l \notin listeners
  /\ listeners' = listeners \cup {l}
  /\ lastSeen' = [lastSeen EXCEPT ![l] = Seen(l, copyOf(logs), ver)]
  /\ subAt' = [subAt EXCEPT ![l] = ver]
  /\ UNCHANGED <<mgrVars, listAll, logs, isListening, engVars, history, ver, nNative, nAdd, nClear,
                 nTab, obs>>

\* The function subscribe returned (sound.ts 48-50).
unsubscribe(l) ==
  /\ microQ = <<>>
  /\ l \in listeners
  /\ listeners' = listeners \ {l}
  /\ lastSeen' = [lastSeen EXCEPT ![l] = NotSeen]
  /\ subAt' = [subAt EXCEPT ![l] = 0]
  /\ UNCHANGED <<mgrVars, listAll, logs, isListening, engVars, history, ver, nNative, nAdd, nClear,
                 nTab, obs>>

\* getLogs (sound.ts 53-55) called by a consumer that is not subscribed: it
\* is handed a copy of its own.
getLogs(l) ==
  /\ microQ = <<>>
  /\ l \notin listeners
  /\ lastSeen[l] # Seen(l, copyOf(logs), ver)
  /\ lastSeen' = [lastSeen EXCEPT ![l] = Seen(l, copyOf(logs), ver)]
  /\ UNCHANGED <<mgrVars, listAll, logs, listeners, isListening, engVars, history, ver, subAt,
                 nNative, nAdd, nClear, nTab, obs>>

\* Two listeners hold the same array object: notifyListeners makes one
\* logsCopy and passes it to every listener (sound.ts 69-72), while subscribe
\* (46) and getLogs (54) spread the buffer into a new array for one caller.
\* A listener's last snapshot came from a notification iff it is newer than
\* its subscription.
sameArray(a, b) ==
  /\ a \in listeners /\ b \in listeners
  /\ lastSeen[a].ver > subAt[a] /\ lastSeen[b].ver > subAt[b]
  /\ lastSeen[a].ver = lastSeen[b].ver

\* A consumer empties the array it was handed, in place (snapshot.length = 0).
\* The buffer is another array: this.logs itself is never handed out.
ConsumerEdits(l) ==
  /\ microQ = <<>>
  /\ lastSeen[l].snap # <<>>
  /\ lastSeen' = [k \in Listeners |->
                    IF k = l \/ sameArray(k, l)
                    THEN [lastSeen[k] EXCEPT !.snap = <<>>] ELSE lastSeen[k]]
  /\ UNCHANGED <<mgrVars, listAll, logs, listeners, isListening, engVars, history, ver, subAt,
                 nNative, nAdd, nClear, nTab, obs>>

(***************************************************************************)
(* useTunnelNotifications: the effect and the asynchronous lookups         *)
(***************************************************************************)
Tabs == {"home", "tunnels"}

\* The effect body (21-141) run for activeTab = tab: logStore.subscribe
\* calls the new listener at once with a copy of the logs.
engineSubscribe(tab) ==
  /\ listeners' = listeners \cup {Engine}
  /\ activeTab' = tab
  /\ lastSeen' = [lastSeen EXCEPT ![Engine] = Seen(Engine, copyOf(logs), ver)]
  /\ subAt' = [subAt EXCEPT ![Engine] = ver]
  /\ SetEngine(listener(CurEngine, copyOf(logs), tab))

\* First run of the effect.
EngineMount(tab) ==
  /\ ~engineMounted
  /\ engineMounted' = TRUE
  /\ engineSubscribe(tab)
  /\ UNCHANGED <<mgrVars, listAll, logs, isListening, now, remoteApi, history, ver, nNative, nAdd,
                 nClear, nTab>>

\* activeTab changed: cleanup (138-140) unsubscribes the old listener and the
\* effect subscribes a new one, in the same commit.
ChangeTab(tab) ==
  /\ engineMounted
  /\ microQ = <<>>
  /\ tab # activeTab
  /\ nTab < MaxTab
  /\ nTab' = nTab + 1
  /\ engineSubscribe(tab)
  /\ UNCHANGED <<mgrVars, listAll, logs, isListening, engineMounted, now, remoteApi, history, ver,
                 nNative, nAdd, nClear>>

\* The rest of the async function (77-109) once the lookup answered `res`:
\* at most one logStore.addLog, which notifies the listeners.
continuation(task, res, e) ==
  LET lines == friendlyLines(task.tunnelId, res)
      counted == IF lines # <<>> /\ task.ep = e.obs.epoch[task.tunnelId]
                 THEN [e EXCEPT !.obs.friendly = Bump(@, task.tunnelId)] ELSE e
  IN IF lines = <<>>
     THEN SetEngine(e) /\ UNCHANGED <<logs, history, ver, lastSeen>>
     ELSE appendLog(lines[1], counted)

\* A lookup answered from the cache resumes as a microtask, before any other
\* event is handled.
RunMicrotask ==
  /\ microQ # <<>>
  /\ continuation(Head(microQ), Head(microQ).res,
                  [CurEngine EXCEPT !.microQ = Tail(microQ)])
  /\ UNCHANGED <<mgrVars, listAll, listeners, isListening, engineMounted, activeTab, now, remoteApi,
                 subAt, nNative, nAdd, nClear, nTab>>

Remove(q, i) == SubSeq(q, 1, i - 1) \o SubSeq(q, i + 1, Len(q))

\* fetchTunnels() of lookup i resolved (30-36): the cache is replaced, stamped
\* with the `now` read before the fetch, and the lookup answers from the new map.
FetchOk(i) ==
  /\ microQ = <<>>
  /\ i \in DOMAIN fetching
  /\ LET task == fetching[i]
         nextMap == MapOf(remoteApi)
     IN continuation(task, MapGet(nextMap, task.tunnelId),
                     [CurEngine EXCEPT !.fetching = Remove(fetching, i),
                                       !.cache = [updatedAt |-> task.at, data |-> nextMap]])
  /\ UNCHANGED <<mgrVars, listAll, listeners, isListening, engineMounted, activeTab, now, remoteApi,
                 subAt, nNative, nAdd, nClear, nTab>>

\* A rejected fetch after which the cache is emptied.
FetchFailForgets(i) ==
  /\ microQ = <<>>
  /\ i \in DOMAIN fetching
  /\ continuation(fetching[i], fetching[i].res,
                  [CurEngine EXCEPT !.fetching = Remove(fetching, i),
                                    !.cache = [updatedAt |-> 0, data |-> <<>>]])
  /\ UNCHANGED <<mgrVars, listAll, listeners, isListening, engineMounted, activeTab, now, remoteApi,
                 subAt, nNative, nAdd, nClear, nTab>>

\* fetchTunnels() of lookup i rejected (37-39): answer from the cache object
\* read before the fetch.
FetchFail(i) ==
  /\ microQ = <<>>
  /\ i \in DOMAIN fetching
  /\ continuation(fetching[i], fetching[i].res,
                  [CurEngine EXCEPT !.fetching = Remove(fetching, i)])
  /\ UNCHANGED <<mgrVars, listAll, listeners, isListening, engineMounted, activeTab, now, remoteApi,
                 subAt, nNative, nAdd, nClear, nTab>>

(***************************************************************************)
(* useTunnelList                                                           *)
(***************************************************************************)
\* What a catalog source answers: a list, or a failure.
SourceFailed == [ok |-> FALSE, list |-> <<>>]
SourceOk(list) == [ok |-> TRUE, list |-> list]
ApiAnswers == {SourceFailed, SourceOk(<<[id |-> 7]>>), SourceOk(<<[id |-> 7], [id |-> 8]>>)}
CustomAnswers == {SourceFailed, SourceOk(<<[id |-> 7]>>)}
\* The answers under which the catalog holds both sessions with id 7, or one.
ApiSeven == {SourceOk(<<[id |-> 7]>>)}

\* fetchTunnels().catch(() => []), getCustomTunnels().catch(() => [])
\* (useTunnelList.ts 34-35)
settle(answer) == IF answer.ok THEN answer.list ELSE <<>>

\* list.map(t => ({type, data: t}))  (10-13, 40-41)
wrap(type, list) == [k \in DOMAIN list |-> [type |-> type, data |-> list[k]]]

\* A merge that puts the custom tunnels first.
allTunnelsCustomFirst(apiTunnels, customTunnels) ==
  wrap("custom", customTunnels) \o wrap("api", apiTunnels)

\* allTunnels (39-42)
allTunnels(apiTunnels, customTunnels) ==
  wrap("api", apiTunnels) \o wrap("custom", customTunnels)

\* A key made of the numeric id alone.
tunnelKeyIdOnly(tunnel) == ToString(tunnel.data.id)

\* `api_${tunnel.data.id}` / `custom_${tunnel.data.id}`
\* (useTunnelList.ts 71, 79, 123, 130, 164, 171; part_002 74-77)
tunnelKey(tunnel) ==
  IF tunnel.type = "api" THEN "api_" \o ToString(tunnel.data.id)
  ELSE "custom_" \o ToString(tunnel.data.id)

\* running.add(key) when the query answered true (70-72, 78-80, 122-124, ...)
addIfRunning(running, tunnel, isRunning) ==
  IF isRunning THEN running \cup {tunnelKey(tunnel)} ELSE running

\* The sessions of the model and their composite keys.
AllTunnels ==
  {[type |-> "api", data |-> [id |-> n]] : n \in {7, 8}}
    \cup {[type |-> "custom", data |-> [id |-> 7]]}
AllKeys == {tunnelKey(t) : t \in AllTunnels}

NoPass == [kind |-> "none", cat |-> <<>>, yes |-> {}, late |-> {}, prev |-> {},
           stale |-> FALSE]
NoFetch == [done |-> FALSE, api |-> SourceFailed, custom |-> SourceFailed]

\* ---- useAutoStartTunnels

\* `${tunnelType}_${tunnelId}` for every entry of the list (part_002 63-66)
autoStartSet(list) ==
  {list[k][1] \o "_" \o ToString(list[k][2]) : k \in DOMAIN list}

\* A check that looks at the first entry of the list only.
hasApiTunnelsFirst(list) == Len(list) > 0 /\ list[1][1] = "api"

\* autoStartList.some(([type]) => type === "api")  (part_002 56)
hasApiTunnels(list) == \E k \in DOMAIN list : list[k][1] = "api"

NewRun == [pc |-> "list", cur |-> <<>>, set |-> {}, running |-> {}, idx |-> 1]

\* The effect of part_002 36-100, run after a commit that changed one of its
\* dependencies [loading, tunnels.length]: the autoStart() calls in flight
\* after it.
autoStartEffect(has, rs, oldLoading, oldLen, newLoading, newLen) ==
  IF oldLoading = newLoading /\ oldLen = newLen THEN rs
  ELSE IF has THEN rs
  ELSE IF newLoading \/ newLen = 0 THEN rs
  ELSE Append(rs, NewRun)

\* The index of the next tunnel the loop of part_002 73-90 toggles, from
\* index `from` on; 0 when the loop runs to its end.
RECURSIVE nextToggle(_, _, _, _)
nextToggle(cur, set, running, from) ==
  IF from > Len(cur) THEN 0
  ELSE IF tunnelKey(cur[from]) \notin set THEN nextToggle(cur, set, running, from + 1)
  ELSE IF tunnelKey(cur[from]) \in running THEN nextToggle(cur, set, running, from + 1)
  ELSE from

\* A loop that ends without setting the flag.
autoStartLoopNoFlag(r, running, from) ==
  LET run == runs[r]
      i == nextToggle(run.cur, run.set, running, from)
  IN IF i = 0
     THEN /\ runs' = Remove(runs, r)
          /\ UNCHANGED <<toggles, hasAutoStarted>>
     ELSE /\ toggles' = Bump(toggles, tunnelKey(run.cur[i]))
          /\ runs' = [runs EXCEPT ![r] = [run EXCEPT !.pc = "sleep", !.running = running,
                                                     !.idx = i + 1]]
          /\ UNCHANGED hasAutoStarted

\* The loop of part_002 73-92 resumed at index `from` by run r: toggle the
\* next tunnel and sleep 500ms, or set the flag.
autoStartLoop(r, running, from) ==
  LET run == runs[r]
      i == nextToggle(run.cur, run.set, running, from)
  IN IF i = 0
     THEN /\ hasAutoStarted' = TRUE
          /\ runs' = Remove(runs, r)
          /\ UNCHANGED toggles
     ELSE /\ toggles' = Bump(toggles, tunnelKey(run.cur[i]))
          /\ runs' = [runs EXCEPT ![r] = [run EXCEPT !.pc = "sleep", !.running = running,
                                                     !.idx = i + 1]]
          /\ UNCHANGED hasAutoStarted

\* getAutoStartTunnels() resolved (part_002 47-68).
RunList(r) ==
  /\ r \in DOMAIN runs
  /\ runs[r].pc = "list"
  /\ IF Len(autoStartList) = 0 \/ (hasApiTunnels(autoStartList) /\ ~usertoken)
     THEN /\ hasAutoStarted' = TRUE
          /\ runs' = Remove(runs, r)
     ELSE /\ runs' = [runs EXCEPT ![r] = [pc |-> "wait", cur |-> tunnels,
                                          set |-> autoStartSet(autoStartList),
                                          running |-> {}, idx |-> 1]]
          /\ UNCHANGED hasAutoStarted
  /\ UNCHANGED <<mgrVars, storeAll, listVars, autoStartList, usertoken, toggles, lastPass, lastFetch,
                 nLoads, nTicks, nSignals>>

\* The 1000ms wait is over (part_002 68-73).
RunWake(r) ==
  /\ r \in DOMAIN runs
  /\ runs[r].pc = "wait"
  /\ autoStartLoop(r, runningTunnels, 1)
  /\ UNCHANGED <<mgrVars, storeAll, listVars, autoStartList, usertoken, lastPass, lastFetch,
                 nLoads, nTicks, nSignals>>

\* A 500ms wait is over (part_002 89).
RunSleepDone(r) ==
  /\ r \in DOMAIN runs
  /\ runs[r].pc = "sleep"
  /\ autoStartLoop(r, runs[r].running, runs[r].idx)
  /\ UNCHANGED <<mgrVars, storeAll, listVars, autoStartList, usertoken, lastPass, lastFetch,
                 nLoads, nTicks, nSignals>>

\* getAutoStartTunnels() rejected: the catch block sets the flag (93-96).
RunListFails(r) ==
  /\ r \in DOMAIN runs
  /\ runs[r].pc = "list"
  /\ hasAutoStarted' = TRUE
  /\ runs' = Remove(runs, r)
  /\ UNCHANGED <<mgrVars, storeAll, listVars, autoStartList, usertoken, toggles, lastPass, lastFetch,
                 nLoads, nTicks, nSignals>>

\* A wait is over and the toggle(tunnel, true) the loop makes next throws:
\* the call was made, the catch block sets the flag and the run ends (87, 93-96).
RunToggleThrows(r) ==
  /\ r \in DOMAIN runs
  /\ runs[r].pc \in {"wait", "sleep"}
  /\ LET run == runs[r]
         running == IF run.pc = "wait" THEN runningTunnels ELSE run.running
         i == nextToggle(run.cur, run.set, running, run.idx)
     IN /\ i # 0
        /\ toggles' = Bump(toggles, tunnelKey(run.cur[i]))
  /\ hasAutoStarted' = TRUE
  /\ runs' = Remove(runs, r)
  /\ UNCHANGED <<mgrVars, storeAll, listVars, autoStartList, usertoken, lastPass, lastFetch,
                 nLoads, nTicks, nSignals>>

\* ---- loadTunnels (useTunnelList.ts 27-98)

\* A loadTunnels call: awaiting the two sources ("fetch"), then awaiting its
\* queries ("status").  The queries of a load run concurrently and `running`
\* stays local to the call until the last of them has settled, so the order
\* in which they settle cannot be observed: the model settles them by index.
NewLoad == [pc |-> "fetch", all |-> <<>>, idx |-> 1, running |-> {}, yes |-> {},
            late |-> {}]

\* refreshTunnels: loadTunnels up to its first await (28-36).
RefreshTunnels ==
  /\ nLoads < MaxLoads
  /\ nLoads' = nLoads + 1
  /\ loading' = TRUE
  /\ error' = ""
  /\ loads' = Append(loads, NewLoad)
  /\ runs' = autoStartEffect(hasAutoStarted, runs, loading, Len(tunnels),
                             loading', Len(tunnels))
  /\ UNCHANGED <<mgrVars, storeAll, tunnels, runningTunnels, tunnelListCache, passes, interval, unlistenFn,
                 hasAutoStarted, autoStartList, usertoken, toggles, lastPass,
                 lastFetch, nTicks, nSignals>>

\* A check that adds what it found to the set it replaces.
CompletedCarryOver(kind, cat, running, yes, late, stale) ==
  /\ runningTunnels' = runningTunnels \cup running
  /\ lastPass' = [kind |-> kind, cat |-> cat, yes |-> yes, late |-> late,
                  prev |-> runningTunnels, stale |-> stale]

\* setRunningTunnels(running) at the end of a check; lastPass notes the check:
\* its catalog, the queries that answered true (yes), those that never
\* answered (late), the set it replaced (prev) and whether the timer that
\* started it had been cleared by then (stale).
Completed(kind, cat, running, yes, late, stale) ==
  /\ runningTunnels' = running
  /\ lastPass' = [kind |-> kind, cat |-> cat, yes |-> yes, late |-> late,
                  prev |-> runningTunnels, stale |-> stale]

\* The periodic effect after a commit that changed `tunnels` (154-181): the
\* cleanup clears the timer of the render before (179), then a timer is set
\* over the new tunnels unless there are none (155, 178).
periodicEffect(timers, newTunnels) ==
  IF Len(newTunnels) = 0 THEN <<>> ELSE <<newTunnels>>

\* clearInterval does not reach a checkRunningStatus call that is already
\* awaiting a query: the call goes on, marked as started by a cleared timer.
afterCleanup(ps) ==
  [j \in DOMAIN ps |->
     IF ps[j].kind = "periodic" THEN [ps[j] EXCEPT !.stale = TRUE] ELSE ps[j]]

\* Both sources settled (33-63): merge, publish, refresh the cache, clear the
\* loading flag and start one query per tunnel, each with its 3000ms timer.
\* The commit re-runs the periodic effect (154-181) and the auto-start effect.
LoadFetched(k, a, c) ==
  /\ k \in DOMAIN loads
  /\ loads[k].pc = "fetch"
  /\ LET apiTunnels == settle(a)
         customTunnels == settle(c)
         all == allTunnels(apiTunnels, customTunnels)
     IN /\ tunnels' = all
        /\ tunnelListCache' = apiTunnels
        /\ loading' = FALSE
        /\ interval' = periodicEffect(interval, all)
        /\ passes' = afterCleanup(passes)
        /\ IF Len(all) = 0
           THEN /\ loads' = Remove(loads, k)
                /\ Completed("load", all, {}, {}, {}, FALSE)
           ELSE /\ loads' = [loads EXCEPT ![k] = [NewLoad EXCEPT !.pc = "status",
                                                                 !.all = all]]
                /\ UNCHANGED <<runningTunnels, lastPass>>
        /\ runs' = autoStartEffect(hasAutoStarted, runs, loading, Len(tunnels),
                                   FALSE, Len(all))
  /\ lastFetch' = [done |-> TRUE, api |-> a, custom |-> c]
  /\ UNCHANGED <<mgrVars, storeAll, error, unlistenFn, hasAutoStarted, autoStartList, usertoken,
                 toggles, nLoads, nTicks, nSignals>>

\* withTimeout (49-61) once the query or its timer has settled: the value the
\* wrapper resolves to.  `answered` is false when only the timer fired.
withTimeout(answered, value) == IF answered THEN value ELSE FALSE

\* One more query of load k settled (63-84): when it was the last one,
\* setRunningTunnels(running) and, in finally (95-97), setLoading(false).
loadSettled(k, answered, value) ==
  LET ld == loads[k]
      isRunning == withTimeout(answered, value)
      running == addIfRunning(ld.running, ld.all[ld.idx], isRunning)
      yes == IF answered /\ value THEN ld.yes \cup {ld.idx} ELSE ld.yes
      late == IF answered THEN ld.late ELSE ld.late \cup {ld.idx}
  IN IF ld.idx = Len(ld.all)
     THEN /\ loads' = Remove(loads, k)
          /\ Completed("load", ld.all, running, yes, late, FALSE)
          /\ loading' = FALSE
          /\ runs' = autoStartEffect(hasAutoStarted, runs, loading, Len(tunnels),
                                     FALSE, Len(tunnels))
     ELSE /\ loads' = [loads EXCEPT ![k] = [ld EXCEPT !.idx = @ + 1, !.running = running,
                                                      !.yes = yes, !.late = late]]
          /\ UNCHANGED <<runningTunnels, lastPass, loading, runs>>

\* A query of load k answered before its timer (52-56).
LoadAnswer(k, value) ==
  /\ k \in DOMAIN loads
  /\ loads[k].pc = "status"
  /\ loadSettled(k, TRUE, value)
  /\ UNCHANGED <<mgrVars, storeAll, tunnels, error, tunnelListCache, passes, interval, unlistenFn,
                 hasAutoStarted, autoStartList, usertoken, toggles, lastFetch,
                 nLoads, nTicks, nSignals>>

\* A query of load k never answered: its timer fired after 3000ms (51).
LoadTimeout(k) ==
  /\ k \in DOMAIN loads
  /\ loads[k].pc = "status"
  /\ loadSettled(k, FALSE, FALSE)
  /\ UNCHANGED <<mgrVars, storeAll, tunnels, error, tunnelListCache, passes, interval, unlistenFn,
                 hasAutoStarted, autoStartList, usertoken, toggles, lastFetch,
                 nLoads, nTicks, nSignals>>

\* ---- the periodic check (154-181) and the auto-restart handler (105-151)

NewPass(kind, cat) ==
  [kind |-> kind, cat |-> cat, idx |-> 1, running |-> {}, yes |-> {}, hung |-> FALSE,
   stale |-> FALSE]

\* The interval fired: checkRunningStatus over the tunnels of its closure.
Tick ==
  /\ interval # <<>>
  /\ nTicks < MaxTicks
  /\ nTicks' = nTicks + 1
  /\ passes' = Append(passes, NewPass("periodic", interval[1]))
  /\ UNCHANGED <<mgrVars, storeAll, tunnels, loading, error, runningTunnels, tunnelListCache, loads,
                 interval, unlistenFn, autoVars, toggles, lastPass, lastFetch,
                 nLoads, nSignals>>

\* The cleanup of the listener effect (146-150), with the periodic effect's
\* (180), when the component is unmounted: unlistenFn() is called only if
\* listen() has resolved by then.
Teardown ==
  /\ unlistenFn \in {"pending", "registered"}
  /\ unlistenFn' = IF unlistenFn = "registered" THEN "detached" ELSE "tornPending"
  /\ interval' = <<>>
  /\ passes' = afterCleanup(passes)
  /\ UNCHANGED <<mgrVars, storeAll, tunnels, loading, error, runningTunnels, tunnelListCache, loads,
                 autoVars, listObs>>

\* listen("tunnel-auto-restarted", ...) resolved (107-144): the listener is
\* registered; `unlistenFn = fn` (142-144) is of use only to a cleanup that
\* has not run yet.
ListenRegistered ==
  /\ unlistenFn \in {"pending", "tornPending"}
  /\ unlistenFn' = IF unlistenFn = "pending" THEN "registered" ELSE "leaked"
  /\ UNCHANGED <<mgrVars, storeAll, tunnels, loading, error, runningTunnels, tunnelListCache, loads,
                 passes, interval, autoVars, listObs>>

\* A handler that closed over the tunnels of the render that registered it,
\* a first render with an empty cache.
tunnelsOfFirstRender == <<>>

\* tunnelsRef.current: an effect stores `tunnels` there after every commit
\* that changed it (21-25).
tunnelsRefCurrent == tunnels

\* A "tunnel-auto-restarted" event: the handler reads tunnelsRef.current
\* (112) and checks these tunnels one after the other; over no tunnels it
\* reaches setRunningTunnels at once.
Signal ==
  /\ unlistenFn \in {"registered", "leaked"}
  /\ nSignals < MaxSignals
  /\ nSignals' = nSignals + 1
  /\ LET currentTunnels == tunnelsRefCurrent
     IN IF Len(currentTunnels) = 0
        THEN Completed("reactive", currentTunnels, {}, {}, {}, FALSE) /\ UNCHANGED passes
        ELSE /\ passes' = Append(passes, NewPass("reactive", currentTunnels))
             /\ UNCHANGED <<runningTunnels, lastPass>>
  /\ UNCHANGED <<mgrVars, storeAll, tunnels, loading, error, tunnelListCache, loads, interval, unlistenFn,
                 autoVars, toggles, lastFetch, nLoads, nTicks>>

\* A check whose completion cancels the checks still in flight.
PassAnswerCancelsOthers(j, isRunning) ==
  /\ j \in DOMAIN passes
  /\ ~passes[j].hung
  /\ LET p == passes[j]
         running == addIfRunning(p.running, p.cat[p.idx], isRunning)
         yes == IF isRunning THEN p.yes \cup {p.idx} ELSE p.yes
     IN IF p.idx = Len(p.cat)
        THEN /\ passes' = <<>>
             /\ Completed(p.kind, p.cat, running, yes, {}, p.stale)
        ELSE /\ passes' = [passes EXCEPT ![j] = [p EXCEPT !.idx = @ + 1,
                                                          !.running = running,
                                                          !.yes = yes]]
             /\ UNCHANGED <<runningTunnels, lastPass>>
  /\ UNCHANGED <<mgrVars, storeAll, tunnels, loading, error, tunnelListCache, loads, interval, unlistenFn,
                 autoVars, toggles, lastFetch, nLoads, nTicks, nSignals>>

\* The query the check j awaits answered (119-132, 160-175): next tunnel, or
\* setRunningTunnels(running) after the last one.
PassAnswer(j, isRunning) ==
  /\ j \in DOMAIN passes
  /\ ~passes[j].hung
  /\ LET p == passes[j]
         running == addIfRunning(p.running, p.cat[p.idx], isRunning)
         yes == IF isRunning THEN p.yes \cup {p.idx} ELSE p.yes
     IN IF p.idx = Len(p.cat)
        THEN /\ passes' = Remove(passes, j)
             /\ Completed(p.kind, p.cat, running, yes, {}, p.stale)
        ELSE /\ passes' = [passes EXCEPT ![j] = [p EXCEPT !.idx = @ + 1,
                                                          !.running = running,
                                                          !.yes = yes]]
             /\ UNCHANGED <<runningTunnels, lastPass>>
  /\ UNCHANGED <<mgrVars, storeAll, tunnels, loading, error, tunnelListCache, loads, interval, unlistenFn,
                 autoVars, toggles, lastFetch, nLoads, nTicks, nSignals>>

\* The query the check j awaits is one that never settles.
PassHang(j) ==
  /\ j \in DOMAIN passes
  /\ ~passes[j].hung
  /\ passes' = [passes EXCEPT ![j].hung = TRUE]
  /\ UNCHANGED <<mgrVars, storeAll, tunnels, loading, error, runningTunnels, tunnelListCache, loads,
                 interval, unlistenFn, autoVars, listObs>>

(***************************************************************************)
(* FrpcManager (part_000 28-141)                                           *)
(***************************************************************************)
MaxCalls == 2         \* FrpcManager calls made, one after the other

\* JavaScript values, as far as the manager tells them apart.
Undef == [t |-> "undefined", b |-> FALSE, s |-> "", a |-> <<>>]
JsNull == [t |-> "null", b |-> FALSE, s |-> "", a |-> <<>>]
JsBool(b) == [t |-> "bool", b |-> b, s |-> "", a |-> <<>>]
JsStr(s) == [t |-> "string", b |-> FALSE, s |-> s, a |-> <<>>]
JsArr(a) == [t |-> "array", b |-> FALSE, s |-> "", a |-> a]
JsErr(s) == [t |-> "error", b |-> FALSE, s |-> s, a |-> <<>>]

\* ToBoolean, as `if (x)`, `x && y` and `x || y` apply it.
truthy(v) ==
  CASE v.t = "bool" -> v.b
    [] v.t = "string" -> v.s # ""
    [] v.t \in {"array", "error"} -> TRUE
    [] OTHER -> FALSE

\* a || b
orElse(a, b) == IF truthy(a) THEN a ELSE b

\* The properties startTunnel reads from the parsed preference (44-58).
PrefFields == {"enabled", "type", "host", "port", "username", "password",
               "tcpMux", "forceTls", "kcpOptimization"}
NoProps == [f \in PrefFields |-> Undef]

\* What JSON.parse returns: null, a primitive, an array or an object; `props`
\* is what reading each property of it yields (undefined on a primitive or
\* an array, since none of the names is a property of those).
JsonNull == [t |-> "null", props |-> NoProps]
JsonNonObject(t) == [t |-> t, props |-> NoProps]
JsonObject(props) == [t |-> "object", props |-> props]

ProxyOn ==
  [NoProps EXCEPT !["enabled"] = JsBool(TRUE), !["type"] = JsStr("socks5"),
                  !["host"] = JsStr("10.0.0.1"), !["port"] = JsStr("1080")]
ProxyAuth ==
  [ProxyOn EXCEPT !["username"] = JsStr("u"), !["password"] = JsStr("p"),
                  !["tcpMux"] = JsBool(TRUE)]
ProxyOff ==
  [NoProps EXCEPT !["enabled"] = JsBool(FALSE), !["host"] = JsStr("10.0.0.1"),
                  !["port"] = JsStr("1080"), !["tcpMux"] = JsBool(FALSE),
                  !["forceTls"] = JsBool(TRUE), !["kcpOptimization"] = JsBool(TRUE)]

ParseOk(v) == [ok |-> TRUE, value |-> v]
SyntaxError == [ok |-> FALSE, value |-> JsonNull]

\* JSON.parse(text) on the texts of StoredItems.
JSONparse(text) ==
  CASE text = "null" -> ParseOk(JsonNull)
    [] text = "5" -> ParseOk(JsonNonObject("number"))
    [] text = "\"socks5\"" -> ParseOk(JsonNonObject("string"))
    [] text = "true" -> ParseOk(JsonNonObject("bool"))
    [] text = "[]" -> ParseOk(JsonNonObject("array"))
    [] text = "{}" -> ParseOk(JsonObject(NoProps))
    [] text = "{on}" -> ParseOk(JsonObject(ProxyOn))
    [] text = "{auth}" -> ParseOk(JsonObject(ProxyAuth))
    [] text = "{off}" -> ParseOk(JsonObject(ProxyOff))
    [] OTHER -> SyntaxError

\* localStorage.getItem("frpc_proxy_config"): null, or the stored text.
\* "{on}", "{auth}" and "{off}" stand for the JSON texts of ProxyOn,
\* ProxyAuth and ProxyOff; "{enabled:" is a cut-off text.
Missing == [present |-> FALSE, text |-> ""]
Stored(text) == [present |-> TRUE, text |-> text]
StoredItems ==
  {Missing} \cup {Stored(x) : x \in {"", "{enabled:", "null", "5", "\"socks5\"", "true",
                                     "[]", "{}", "{on}", "{auth}", "{off}"}}

\* `${type}://${auth}${host}:${port}` (49), kept as its parts.
NoProxy == [set |-> FALSE, type |-> Undef, username |-> Undef, password |-> Undef,
            host |-> Undef, port |-> Undef]
proxyUrl(c) ==
  LET auth == truthy(c["username"]) /\ truthy(c["password"])
  IN [set |-> TRUE, type |-> c["type"],
      username |-> IF auth THEN c["username"] ELSE Undef,
      password |-> IF auth THEN c["password"] ELSE Undef,
      host |-> c["host"], port |-> c["port"]]

\* let httpProxy; let tcpMux = true; let forceTls = false; let kcpOptimization = false (33-36)
ProxyDefaults ==
  [httpProxy |-> NoProxy, tcpMux |-> JsBool(TRUE), forceTls |-> JsBool(FALSE),
   kcpOptimization |-> JsBool(FALSE), threw |-> FALSE]

\* The assignments of the try block (43-58) for a parsed value whose
\* properties can be read.
proxyAssignments(c) ==
  [httpProxy |-> IF truthy(c["enabled"]) /\ truthy(c["host"]) /\ truthy(c["port"])
                 THEN proxyUrl(c) ELSE NoProxy,
   tcpMux |-> IF c["tcpMux"].t # "undefined" THEN c["tcpMux"] ELSE JsBool(TRUE),
   forceTls |-> orElse(c["forceTls"], JsBool(FALSE)),
   kcpOptimization |-> orElse(c["kcpOptimization"], JsBool(FALSE)),
   threw |-> FALSE]

\* The same block without its try/catch: a SyntaxError of JSON.parse or the
\* TypeError of reading a property of null leaves startTunnel.
readProxyConfigUnguarded(item) ==
  IF ~item.present \/ item.text = "" THEN ProxyDefaults
  ELSE LET parsed == JSONparse(item.text)
       IN IF ~parsed.ok \/ parsed.value.t = "null"
          THEN [ProxyDefaults EXCEPT !.threw = TRUE]
          ELSE proxyAssignments(parsed.value.props)

\* startTunnel 33-60: nothing is assigned before JSON.parse returned and
\* proxyConfig.enabled was read, so an exception caught at 58 leaves the four
\* locals at their initial values; `threw` says an exception left the block.
readProxyConfig(item) ==
  IF ~item.present \/ item.text = "" THEN ProxyDefaults
  ELSE LET parsed == JSONparse(item.text)
       IN IF ~parsed.ok \/ parsed.value.t = "null"
          THEN ProxyDefaults
          ELSE proxyAssignments(parsed.value.props)

\* const config: TunnelConfig = {...} (62-78): the fields taken from the
\* preference, and the tunnel's id.
TunnelConfigOf(tunnelId, p) ==
  [tunnel_id |-> tunnelId, http_proxy |-> p.httpProxy, tcp_mux |-> p.tcpMux,
   force_tls |-> p.forceTls, kcp_optimization |-> p.kcpOptimization]
NoConfig == TunnelConfigOf(0, ProxyDefaults)

\* How an invoke() ends: the promise resolves with a value, it rejects, or
\* invoke itself throws.
Resolve(v) == [k |-> "resolve", v |-> v]
Reject(e) == [k |-> "reject", v |-> e]
Throw(e) == [k |-> "throw", v |-> e]
NativeFailures == {Reject(JsErr("native")), Throw(JsErr("ipc"))}

\* What the native command may answer, per command.
NativeOutcomes(cmd) ==
  NativeFailures \cup
  CASE cmd = "start_frpc" -> {Resolve(JsStr("started"))}
    [] cmd = "stop_frpc" -> {Resolve(JsStr("stopped"))}
    [] cmd = "is_frpc_running" -> {Resolve(JsBool(TRUE)), Resolve(JsBool(FALSE))}
    [] cmd = "get_running_tunnels" -> {Resolve(JsArr(<<>>)), Resolve(JsArr(<<7>>))}
    [] cmd = "resolve_domain_to_ip" -> {Resolve(JsStr("203.0.113.7")), Resolve(JsNull)}

\* What the caller of an async method gets.
Returned(v) == [k |-> "returned", v |-> v]
Rejected(e) == [k |-> "rejected", v |-> e]

\* `return await invoke(...)` with no try around it.
awaitInvoke(o) == IF o.k = "resolve" THEN Returned(o.v) ELSE Rejected(o.v)

\* try { return await invoke(...) } catch { return fallback }
awaitInvokeOr(o, fallback) == IF o.k = "resolve" THEN Returned(o.v) ELSE Returned(fallback)

\* An isTunnelRunning that lets the failure through.
isTunnelRunningUncaught(o) == awaitInvoke(o)

\* startTunnel 83, stopTunnel 86-90
startTunnelSettled(o) == awaitInvoke(o)
stopTunnelSettled(o) == awaitInvoke(o)
\* isTunnelRunning 92-100, getRunningTunnels 102-108, resolveDomainToIp 134-140
isTunnelRunningSettled(o) == awaitInvokeOr(o, JsBool(FALSE))
getRunningTunnelsSettled(o) == awaitInvokeOr(o, JsArr(<<>>))
resolveDomainToIpSettled(o) == awaitInvokeOr(o, JsNull)

Methods == {"startTunnel", "stopTunnel", "isTunnelRunning", "getRunningTunnels",
            "resolveDomainToIp"}
commandOf(method) ==
  CASE method = "startTunnel" -> "start_frpc"
    [] method = "stopTunnel" -> "stop_frpc"
    [] method = "isTunnelRunning" -> "is_frpc_running"
    [] method = "getRunningTunnels" -> "get_running_tunnels"
    [] method = "resolveDomainToIp" -> "resolve_domain_to_ip"
methodSettled(method, o) ==
  CASE method = "startTunnel" -> startTunnelSettled(o)
    [] method = "stopTunnel" -> stopTunnelSettled(o)
    [] method = "isTunnelRunning" -> isTunnelRunningSettled(o)
    [] method = "getRunningTunnels" -> getRunningTunnelsSettled(o)
    [] method = "resolveDomainToIp" -> resolveDomainToIpSettled(o)

NoCall == [method |-> "none", cmd |-> "none", config |-> NoConfig]
Request(method, config) == [method |-> method, cmd |-> commandOf(method), config |-> config]

\* A settled call, as its caller saw it.
SettledCall(call, native, result) ==
  [method |-> call.method, cmd |-> call.cmd, config |-> call.config,
   native |-> native, result |-> result]

InitMgrIdle ==
  /\ frpc_proxy_config = Missing
  /\ ipc = NoCall
  /\ settled = <<>>
  /\ frpcLog = NotListening

\* startTunnel up to its invoke (32-83).
startTunnel(tunnelId) ==
  /\ ipc = NoCall
  /\ Len(settled) < MaxCalls
  /\ LET p == readProxyConfig(frpc_proxy_config)
     IN IF p.threw
        THEN /\ settled' = Append(settled,
                              SettledCall([method |-> "startTunnel", cmd |-> "none",
                                           config |-> NoConfig],
                                          Throw(JsErr("config")), Rejected(JsErr("config"))))
             /\ UNCHANGED ipc
        ELSE /\ ipc' = Request("startTunnel", TunnelConfigOf(tunnelId, p))
             /\ UNCHANGED settled
  /\ UNCHANGED <<storeAll, listAll, frpc_proxy_config, frpcLog>>

\* stopTunnel, isTunnelRunning, getRunningTunnels, resolveDomainToIp up to
\* their invoke (87, 94, 104, 136).
callNative(method) ==
  /\ method # "startTunnel"
  /\ ipc = NoCall
  /\ Len(settled) < MaxCalls
  /\ ipc' = Request(method, NoConfig)
  /\ UNCHANGED <<storeAll, listAll, frpc_proxy_config, settled, frpcLog>>

\* The invoke of the call in flight ends with outcome o, and the method
\* returns or rejects.
InvokeSettles(o) ==
  /\ ipc # NoCall
  /\ o \in NativeOutcomes(ipc.cmd)
  /\ settled' = Append(settled, SettledCall(ipc, o, methodSettled(ipc.method, o)))
  /\ ipc' = NoCall
  /\ UNCHANGED <<storeAll, listAll, frpc_proxy_config, frpcLog>>

AllOutcomes == UNION {NativeOutcomes(commandOf(m)) : m \in Methods}

(***************************************************************************)
(* Specifications                                                          *)
(***************************************************************************)
StartTime == 2 * CacheTtl     \* Date.now() is far beyond updatedAt = 0

InitStore ==
  /\ logs = <<>>
  /\ listeners = {}
  /\ isListening = FALSE
  /\ engineMounted = FALSE
  /\ activeTab = "home"
  /\ processedLogsCount = 0
  /\ notifiedSuccess = {}
  /\ notifiedError = {}
  /\ successLogAdded = {}
  /\ tunnelCache = [updatedAt |-> 0, data |-> <<>>]
  /\ microQ = <<>>
  /\ fetching = <<>>
  /\ now = StartTime
  /\ history = <<>>
  /\ ver = 0
  /\ lastSeen = [l \in Listeners |-> NotSeen]
  /\ subAt = [l \in Listeners |-> 0]
  /\ nNative = 0 /\ nAdd = 0 /\ nClear = 0 /\ nTab = 0
  /\ obs = ObsInit

\* useTunnelList and useAutoStartTunnels not mounted.
InitListIdle ==
  /\ tunnels = <<>>
  /\ loading = TRUE
  /\ error = ""
  /\ runningTunnels = {}
  /\ tunnelListCache = <<>>
  /\ loads = <<>>
  /\ passes = <<>>
  /\ interval = <<>>
  /\ unlistenFn = "none"
  /\ hasAutoStarted = FALSE
  /\ runs = <<>>
  /\ autoStartList = <<>>
  /\ usertoken = FALSE
  /\ toggles = [key \in AllKeys |-> 0]
  /\ lastPass = NoPass
  /\ lastFetch = NoFetch
  /\ nLoads = 0 /\ nTicks = 0 /\ nSignals = 0

vars == <<storeAll, listAll, mgrVars>>

\* The log store with the notification engine as its subscriber.
Init ==
  /\ InitStore
  /\ InitMgrIdle
  /\ InitListIdle
  /\ remoteApi \in RemoteLists

Next ==
  \/ startListening
  \/ \E log \in ApiLines : NativeLog(log)
  \/ clearLogs
  \/ \E tab \in Tabs : EngineMount(tab)
  \/ \E tab \in Tabs : ChangeTab(tab)
  \/ RunMicrotask
  \/ \E i \in DOMAIN fetching : FetchOk(i)
  \/ \E i \in DOMAIN fetching : FetchFail(i)

Spec == Init /\ [][Next]_vars

\* The engine across tab changes, fed by native lines only (no clear).
NextTabs ==
  \/ startListening
  \/ \E log \in ApiLines : NativeLog(log)
  \/ \E tab \in Tabs : EngineMount(tab)
  \/ \E tab \in Tabs : ChangeTab(tab)
  \/ RunMicrotask
  \/ \E i \in DOMAIN fetching : FetchOk(i)
  \/ \E i \in DOMAIN fetching : FetchFail(i)

SpecTabs == Init /\ [][NextTabs]_vars

\* The log store on its own, with log viewers subscribing and leaving.
LogLines == {[tunnel_id |-> 7, message |-> m, src |-> "api"] : m \in {MsgLaunched, MsgFailed}}

InitLog ==
  /\ InitStore
  /\ InitMgrIdle
  /\ InitListIdle
  /\ remoteApi = <<>>

NextLog ==
  \/ startListening
  \/ \E log \in LogLines : NativeLog(log)
  \/ \E log \in LogLines : addLog(log)
  \/ clearLogs
  \/ \E l \in Viewers : subscribe(l)
  \/ \E l \in Viewers : unsubscribe(l)

SpecLog == InitLog /\ [][NextLog]_vars

\* The engine fed by two sessions that carry the same numeric id.
InitKinds ==
  /\ InitStore
  /\ InitMgrIdle
  /\ InitListIdle
  /\ remoteApi \in RemoteLists

NextKinds ==
  \/ startListening
  \/ \E log \in KindLines : NativeLog(log)
  \/ EngineMount("home")
  \/ RunMicrotask
  \/ \E i \in DOMAIN fetching : FetchOk(i)
  \/ \E i \in DOMAIN fetching : FetchFail(i)

SpecKinds == InitKinds /\ [][NextKinds]_vars

\* useTunnelList with useAutoStartTunnels, after the mount commit: the first
\* render shows the cached provisioned tunnels (9-17), loadTunnels() is in
\* flight (100-102), listen() is in flight, the interval runs if the cached
\* list is not empty, and the auto-start effect has seen the first render.
InitMountedList ==
  /\ tunnelListCache \in {<<>>, <<[id |-> 7]>>}
  /\ tunnels = wrap("api", tunnelListCache)
  /\ loading = TRUE
  /\ error = ""
  /\ runningTunnels = {}
  /\ loads = <<NewLoad>>
  /\ passes = <<>>
  /\ interval = periodicEffect(<<>>, tunnels)
  /\ unlistenFn = "pending"
  /\ hasAutoStarted = FALSE
  /\ runs = autoStartEffect(FALSE, <<>>, TRUE, 0, Len(tunnelListCache) = 0, Len(tunnels))
  /\ toggles = [key \in AllKeys |-> 0]
  /\ lastPass = NoPass
  /\ lastFetch = NoFetch
  /\ nLoads = 1 /\ nTicks = 0 /\ nSignals = 0

\* The same, next to a log store without subscribers.
InitMounted ==
  /\ InitStore
  /\ InitMgrIdle
  /\ remoteApi = <<>>
  /\ InitMountedList

\* The catalog and the three status checks; nothing is flagged for auto-start.
InitList ==
  /\ InitMounted
  /\ autoStartList = <<>>
  /\ usertoken = TRUE

NextList ==
  \/ RefreshTunnels
  \/ \E k \in DOMAIN loads : \E a \in ApiSeven : \E c \in CustomAnswers : LoadFetched(k, a, c)
  \/ \E k \in DOMAIN loads : \E b \in BOOLEAN : LoadAnswer(k, b)
  \/ \E k \in DOMAIN loads : LoadTimeout(k)
  \/ Tick
  \/ ListenRegistered
  \/ Signal
  \/ \E j \in DOMAIN passes : \E b \in BOOLEAN : PassAnswer(j, b)
  \/ \E j \in DOMAIN passes : PassHang(j)
  \/ \E r \in DOMAIN runs : RunList(r)

SpecList == InitList /\ [][NextList]_vars

\* Auto-start over the catalog that loadTunnels publishes.
AutoStartLists == {<<<<"api", 7>>>>, <<<<"custom", 7>>, <<"api", 7>>>>}

InitAuto ==
  /\ InitMounted
  /\ autoStartList \in AutoStartLists
  /\ usertoken \in BOOLEAN

NextAuto ==
  \/ RefreshTunnels
  \/ \E k \in DOMAIN loads : \E a \in ApiSeven : \E c \in CustomAnswers : LoadFetched(k, a, c)
  \/ \E k \in DOMAIN loads : \E b \in BOOLEAN : LoadAnswer(k, b)
  \/ \E r \in DOMAIN runs : RunList(r)
  \/ \E r \in DOMAIN runs : RunWake(r)
  \/ \E r \in DOMAIN runs : RunSleepDone(r)

SpecAuto == InitAuto /\ [][NextAuto]_vars

\* Auto-start after the mount's loadTunnels, signed in or not, over lists
\* with and without a provisioned entry.
AuthLists == AutoStartLists \cup {<<<<"custom", 7>>>>}

InitAuth ==
  /\ InitMounted
  /\ autoStartList \in AuthLists
  /\ usertoken \in BOOLEAN

NextAuth ==
  \/ \E k \in DOMAIN loads : \E a \in ApiSeven : \E c \in CustomAnswers : LoadFetched(k, a, c)
  \/ \E k \in DOMAIN loads : \E b \in BOOLEAN : LoadAnswer(k, b)
  \/ \E k \in DOMAIN loads : LoadTimeout(k)
  \/ \E r \in DOMAIN runs : RunList(r)
  \/ \E r \in DOMAIN runs : RunWake(r)
  \/ \E r \in DOMAIN runs : RunSleepDone(r)

SpecAuth == InitAuth /\ [][NextAuth]_vars

\* Auto-start with its error exits; every await of a run settles: the list
\* request is answered or rejected and the 1000ms and 500ms timers fire.
NextExits ==
  \/ \E k \in DOMAIN loads : \E a \in ApiSeven : \E c \in CustomAnswers : LoadFetched(k, a, c)
  \/ \E k \in DOMAIN loads : \E b \in BOOLEAN : LoadAnswer(k, b)
  \/ \E k \in DOMAIN loads : LoadTimeout(k)
  \/ \E r \in DOMAIN runs : RunList(r)
  \/ \E r \in DOMAIN runs : RunListFails(r)
  \/ \E r \in DOMAIN runs : RunWake(r)
  \/ \E r \in DOMAIN runs : RunSleepDone(r)
  \/ \E r \in DOMAIN runs : RunToggleThrows(r)

RunStep ==
  \E r \in DOMAIN runs :
     RunList(r) \/ RunListFails(r) \/ RunWake(r) \/ RunSleepDone(r) \/ RunToggleThrows(r)

SpecExits == InitAuth /\ [][NextExits]_vars /\ WF_vars(RunStep)

\* The three status checks side by side over a catalog that the mount's load
\* replaces; every query settles, so a check that is in flight goes on.
ApiGone == {SourceFailed, SourceOk(<<[id |-> 7]>>)}

NextPass ==
  \/ \E k \in DOMAIN loads : \E a \in ApiGone : \E c \in CustomAnswers : LoadFetched(k, a, c)
  \/ \E k \in DOMAIN loads : \E b \in BOOLEAN : LoadAnswer(k, b)
  \/ \E k \in DOMAIN loads : LoadTimeout(k)
  \/ Tick
  \/ ListenRegistered
  \/ Signal
  \/ \E j \in DOMAIN passes : \E b \in BOOLEAN : PassAnswer(j, b)

PassStep == \E j \in DOMAIN passes : \E b \in BOOLEAN : PassAnswer(j, b)

SpecPass == InitList /\ [][NextPass]_vars /\ WF_vars(PassStep)

\* The periodic check across reloads that may empty the catalog.
NextPoll ==
  \/ RefreshTunnels
  \/ \E k \in DOMAIN loads : \E a \in ApiGone : \E c \in CustomAnswers : LoadFetched(k, a, c)
  \/ \E k \in DOMAIN loads : \E b \in BOOLEAN : LoadAnswer(k, b)
  \/ Tick
  \/ \E j \in DOMAIN passes : \E b \in BOOLEAN : PassAnswer(j, b)

SpecPoll == InitList /\ [][NextPoll]_vars

\* The tunnel list page and the notification engine side by side: the
\* mount's loadTunnels next to the engine's lookups.
InitCaches ==
  /\ InitStore
  /\ InitMgrIdle
  /\ remoteApi \in RemoteLists
  /\ InitMountedList
  /\ autoStartList = <<>>
  /\ usertoken = TRUE

NextCaches ==
  \/ \E k \in DOMAIN loads : \E x \in ApiSeven : \E c \in CustomAnswers : LoadFetched(k, x, c)
  \/ \E k \in DOMAIN loads : \E b \in BOOLEAN : LoadAnswer(k, b)
  \/ startListening
  \/ \E log \in ApiLines : NativeLog(log)
  \/ \E tab \in Tabs : EngineMount(tab)
  \/ RunMicrotask
  \/ \E i \in DOMAIN fetching : FetchOk(i)
  \/ \E i \in DOMAIN fetching : FetchFail(i)

SpecCaches == InitCaches /\ [][NextCaches]_vars

\* The engine's lookups as time passes.  The clock is observed at the
\* instants around the 30000ms limit: a refresh time, 1ms before the limit
\* of a refresh made then, and the limit itself.
MaxCycles == 1        \* periods of 30000ms the clock runs through

ClockAdvances ==
  /\ microQ = <<>>
  /\ now - StartTime < MaxCycles * CacheTtl
  /\ now' = IF (now - StartTime) % CacheTtl = 0 THEN now + (CacheTtl - 1) ELSE now + 1
  /\ UNCHANGED <<mgrVars, listAll, logVars, engineMounted, activeTab, processedLogsCount,
                 notifiedSuccess, notifiedError, successLogAdded, tunnelCache, microQ,
                 fetching, remoteApi, obsVars>>

\* What fetchTunnels() may answer: a list of one tunnel, or no tunnel at all.
RemoteOrNone == RemoteLists \cup {<<>>}

InitTtl ==
  /\ InitStore
  /\ InitMgrIdle
  /\ InitListIdle
  /\ remoteApi \in RemoteOrNone

NextTtl ==
  \/ startListening
  \/ \E log \in ApiLines : NativeLog(log)
  \/ \E tab \in Tabs : EngineMount(tab)
  \/ RunMicrotask
  \/ \E i \in DOMAIN fetching : FetchOk(i)
  \/ \E i \in DOMAIN fetching : FetchFail(i)
  \/ ClockAdvances

SpecTtl == InitTtl /\ [][NextTtl]_vars

\* The engine fed with lines that carry any combination of the three
\* markers; the remote tunnel is a tcp one, so no friendly line is appended,
\* and the lookups' fetches succeed.
MarkerMessages ==
  {m \in SUBSET {LAUNCHED, SUCCESS, OKWORD, FAILED} :
     m # {} /\ (SUCCESS \in m <=> OKWORD \in m)}
MarkerLines == [tunnel_id : TunnelIds, message : MarkerMessages, src : {"api"}]

InitMarkers ==
  /\ InitStore
  /\ InitMgrIdle
  /\ InitListIdle
  /\ remoteApi = <<TcpTunnel>>

NextMarkers ==
  \/ startListening
  \/ \E log \in MarkerLines : NativeLog(log)
  \/ \E tab \in Tabs : EngineMount(tab)
  \/ RunMicrotask
  \/ \E i \in DOMAIN fetching : FetchOk(i)

SpecMarkers == InitMarkers /\ [][NextMarkers]_vars

\* The engine's cursor against a buffer that fills up and is cleared: native
\* lines, one line added by the application, clears.
InitCursor ==
  /\ InitStore
  /\ InitMgrIdle
  /\ InitListIdle
  /\ remoteApi = <<TcpTunnel>>

NextCursor ==
  \/ startListening
  \/ \E log \in ApiLines : NativeLog(log)
  \/ \E log \in LogLines : addLog(log)
  \/ clearLogs
  \/ \E tab \in Tabs : EngineMount(tab)
  \/ RunMicrotask
  \/ \E i \in DOMAIN fetching : FetchOk(i)

SpecCursor == InitCursor /\ [][NextCursor]_vars

\* The engine fed with its own friendly lines: the provisioned tunnel's name
\* and domain are ordinary, or are themselves marker texts.
InitLoop ==
  /\ InitStore
  /\ InitMgrIdle
  /\ InitListIdle
  /\ remoteApi \in RemoteLists \cup {<<MarkerTunnel>>}

NextLoop ==
  \/ startListening
  \/ \E log \in ApiLines : NativeLog(log)
  \/ \E tab \in Tabs : EngineMount(tab)
  \/ RunMicrotask
  \/ \E i \in DOMAIN fetching : FetchOk(i)
  \/ \E i \in DOMAIN fetching : FetchFail(i)

SpecLoop == InitLoop /\ [][NextLoop]_vars

\* The remote catalog answers during the first CacheTtl and rejects every
\* fetch from then on.
Outage == now >= StartTime + CacheTtl

InitOutage ==
  /\ InitStore
  /\ InitMgrIdle
  /\ InitListIdle
  /\ remoteApi \in RemoteLists

NextOutage ==
  \/ startListening
  \/ \E log \in {l \in ApiLines : l.message # MsgFailed} : NativeLog(log)
  \/ \E tab \in Tabs : EngineMount(tab)
  \/ RunMicrotask
  \/ \E i \in DOMAIN fetching : ~Outage /\ FetchOk(i)
  \/ \E i \in DOMAIN fetching : Outage /\ FetchFail(i)
  \/ ClockAdvances

SpecOutage == InitOutage /\ [][NextOutage]_vars

\* startListening called more than once, the registration of the native
\* listener, and the events it delivers to the store and a log viewer.
NextListen ==
  \/ startListeningCall
  \/ ListenSettles
  \/ \E log \in LogLines : FrpcLogEvent(log)
  \/ subscribe("v1")

SpecListen == InitLog /\ [][NextListen]_vars

\* The auto-restart listener and the interval of a component that is
\* unmounted at some point; the catalog is the one of the first render.
NextTeardown ==
  \/ Tick
  \/ ListenRegistered
  \/ Signal
  \/ \E j \in DOMAIN passes : \E b \in BOOLEAN : PassAnswer(j, b)
  \/ \E j \in DOMAIN passes : PassHang(j)
  \/ Teardown

SpecTeardown == InitList /\ [][NextTeardown]_vars

\* loadTunnels on its own, over every answer of the two sources.
NextLoad ==
  \/ RefreshTunnels
  \/ \E k \in DOMAIN loads : \E a \in ApiAnswers : \E c \in CustomAnswers : LoadFetched(k, a, c)
  \/ \E k \in DOMAIN loads : \E b \in BOOLEAN : LoadAnswer(k, b)
  \/ \E k \in DOMAIN loads : LoadTimeout(k)
  \/ \E r \in DOMAIN runs : RunList(r)

SpecLoad == InitList /\ [][NextLoad]_vars

\* The store with the engine and one log viewer subscribed side by side.
OrderLines == {[tunnel_id |-> 7, message |-> m, src |-> "api"] : m \in {MsgLaunched, MsgSuccess}}

InitOrder ==
  /\ InitStore
  /\ InitMgrIdle
  /\ InitListIdle
  /\ remoteApi \in RemoteLists

NextOrder ==
  \/ startListening
  \/ \E log \in OrderLines : NativeLog(log)
  \/ clearLogs
  \/ EngineMount("home")
  \/ subscribe("v1")
  \/ unsubscribe("v1")
  \/ RunMicrotask
  \/ \E i \in DOMAIN fetching : FetchOk(i)
  \/ \E i \in DOMAIN fetching : FetchFail(i)

SpecOrder == InitOrder /\ [][NextOrder]_vars

\* The log store with consumers that keep and change the arrays they are handed.
NextSnap ==
  \/ startListening
  \/ \E log \in LogLines : NativeLog(log)
  \/ clearLogs
  \/ \E l \in Viewers : subscribe(l)
  \/ \E l \in Viewers : unsubscribe(l)
  \/ \E l \in Viewers : getLogs(l)
  \/ \E l \in Viewers : ConsumerEdits(l)

SpecSnap == InitLog /\ [][NextSnap]_vars

\* FrpcManager called by one caller at a time, over every stored preference
\* and every outcome of the native command.
InitMgr ==
  /\ InitStore
  /\ InitListIdle
  /\ remoteApi = <<>>
  /\ frpc_proxy_config \in StoredItems
  /\ ipc = NoCall
  /\ settled = <<>>
  /\ frpcLog = NotListening

NextMgr ==
  \/ \E id \in TunnelIds : startTunnel(id)
  \/ \E m \in Methods : callNative(m)
  \/ \E o \in AllOutcomes : InvokeSettles(o)

SpecMgr == InitMgr /\ [][NextMgr]_vars

(***************************************************************************)
(* Properties                                                              *)
(***************************************************************************)

\* C1: for every interleaving of native log events and addLog calls, the
\* buffer never holds more than maxLogs lines and always equals the most
\* recent min(n, maxLogs) of the n lines appended (since the last clear), in
\* append order: eviction only removes the oldest lines, from the front.
C1_BufferIsMostRecentLines ==
  LET n == Len(history)
      m == IF n < maxLogs THEN n ELSE maxLogs
  IN /\ Len(logs) <= maxLogs
     /\ logs = SubSeq(history, n - m + 1, n)

\* More lines than the capacity were appended, by both callers.
C1_Evicted == Len(history) > maxLogs /\ nAdd >= 1 /\ nNative >= 1

\* C2: subscribe hands the listener, within the subscribe step, a snapshot
\* equal to the buffer at that moment; every snapshot a subscribed listener is
\* handed later is the buffer after an append or clear numbered above the
\* number of calls made when it subscribed.
C2_SubscribeSnapshotThenLater ==
  [][\A l \in Listeners :
       /\ (l \notin listeners /\ l \in listeners') =>
            /\ lastSeen'[l] = [snap |-> logs, ver |-> ver]
            /\ logs' = logs /\ ver' = ver
       /\ (l \in listeners /\ l \in listeners' /\ lastSeen'[l] # lastSeen[l]) =>
            /\ ver' > subAt[l]
            /\ lastSeen'[l] = [snap |-> logs', ver |-> ver']]_vars

\* A viewer subscribed to a buffer that had a history and was called again later.
C2_SubscribedThenNotified ==
  \E l \in Viewers :
     /\ l \in listeners
     /\ subAt[l] > 0
     /\ lastSeen[l].ver > subAt[l]
     /\ Len(lastSeen[l].snap) > 0

\* C3: every append or clear, native, by the user or by the engine's own
\* asynchronous continuation, is one call that hands every subscriber the
\* buffer as that call left it, before the next call is made: a subscriber's
\* snapshots come in call order and never go back to an older one.
C3_DeliveryInCallOrder ==
  [][/\ ver' \in {ver, ver + 1}
     /\ \A l \in Listeners :
          (l \in listeners /\ l \in listeners') =>
             IF ver' = ver THEN lastSeen'[l] = lastSeen[l]
             ELSE /\ lastSeen'[l] = [snap |-> logs', ver |-> ver']
                  /\ lastSeen'[l].ver > lastSeen[l].ver]_vars

\* The viewer, subscribed beside the engine, was handed a friendly line the
\* engine appended after a clear.
C3_ViewerSawFriendlyLine ==
  /\ "v1" \in listeners
  /\ Engine \in listeners
  /\ nClear = 1
  /\ lastSeen["v1"].ver >= subAt["v1"] + 3
  /\ \E k \in DOMAIN lastSeen["v1"].snap : lastSeen["v1"].snap[k].src = "launcher"

\* C4: the engine is subscribed from the start and never suppressed; session
\* 7 emits a "launched" line and then two "mapping started" lines, and the
\* lookup found the session's metadata and has answered: then exactly one
\* success toast was raised and exactly one friendly line was appended.
C4_OneToastOneFriendlyLine ==
  LET L == [tunnel_id |-> 7, message |-> MsgLaunched, src |-> "api"]
      S == [tunnel_id |-> 7, message |-> MsgSuccess, src |-> "api"]
  IN (/\ engineMounted /\ subAt[Engine] = 0
      /\ activeTab = "home" /\ nTab = 0 /\ nClear = 0
      /\ obs.natives = <<L, S, S>>
      /\ microQ = <<>> /\ fetching = <<>>
      /\ 7 \in DOMAIN tunnelCache.data)
     => /\ obs.allToasts[7] = 1
        /\ Cardinality({k \in DOMAIN history : history[k].src = "launcher"}) = 1

\* C5: the engine is subscribed from the start and never suppressed; session
\* 7 emits "launched", "mapping started", and again "launched", "mapping
\* started": the second pair raises exactly one new success toast, two in all.
C5_RelaunchToastsAgain ==
  LET L == [tunnel_id |-> 7, message |-> MsgLaunched, src |-> "api"]
      S == [tunnel_id |-> 7, message |-> MsgSuccess, src |-> "api"]
  IN (/\ engineMounted /\ subAt[Engine] = 0
      /\ activeTab = "home" /\ nTab = 0
      /\ obs.natives = <<L, S, L, S>>)
     => obs.allToasts[7] = 2

\* C6: however often the auto-start effect fires, no session receives more
\* than one "toggle on" call from auto-start.
C6_AtMostOneToggle == \A key \in AllKeys : toggles[key] <= 1

\* C7: a status check that waits for a query that never resolves can still
\* go on to its end: the load by its 3000ms timer, the periodic and the
\* reactive check by a step that resumes them.
C7_EveryCheckCompletes ==
  /\ \A k \in DOMAIN loads : loads[k].pc = "status" => ENABLED LoadTimeout(k)
  /\ \A j \in DOMAIN passes :
        passes[j].hung => ENABLED (\E b \in BOOLEAN : PassAnswer(j, b))

\* C8: when the catalog of the last completed check holds a provisioned and
\* a custom session with the same numeric id, their keys differ and each key
\* is in runningTunnels exactly when that session's own query answered true.
C8_KeysOfBothKindsDistinct ==
  LET cat == lastPass.cat
  IN \A i, j \in DOMAIN cat :
        (cat[i].type # cat[j].type /\ cat[i].data.id = cat[j].data.id) =>
           /\ tunnelKey(cat[i]) # tunnelKey(cat[j])
           /\ tunnelKey(cat[i]) \in runningTunnels <=> i \in lastPass.yes
           /\ tunnelKey(cat[j]) \in runningTunnels <=> j \in lastPass.yes

\* A check found one of the two sessions with id 7 running and the other not.
C8_OneOfTwoRunning ==
  LET cat == lastPass.cat
  IN \E i, j \in DOMAIN cat :
        /\ cat[i].type # cat[j].type
        /\ cat[i].data.id = cat[j].data.id
        /\ tunnelKey(cat[i]) \in runningTunnels
        /\ tunnelKey(cat[j]) \notin runningTunnels

\* C9: for each of the two sessions with numeric id 7, counted since that
\* session's own "launched" line: a success (failure) line of the session that
\* the engine processed while not suppressed raised a toast for it, and the
\* session's lines raised at most one success and one failure toast.
C9_KindsDoNotCollide ==
  \A o \in Origins :
     /\ obs.oLive[o] => obs.oToasts[o] >= 1
     /\ obs.oErrLive[o] => obs.oErrToasts[o] >= 1
     /\ obs.oToasts[o] <= 1
     /\ obs.oErrToasts[o] <= 1

\* C10: after a load merged the answers of the two sources, no error is set
\* and the catalog is the provisioned list (empty if that source failed) in
\* source order followed by the custom list (empty if that source failed) in
\* source order.
C10_LoadIsolatesSources ==
  lastFetch.done =>
    LET a == lastFetch.api
        c == lastFetch.custom
        na == IF a.ok THEN Len(a.list) ELSE 0
        nc == IF c.ok THEN Len(c.list) ELSE 0
    IN /\ error = ""
       /\ Len(tunnels) = na + nc
       /\ \A k \in 1..na : tunnels[k] = [type |-> "api", data |-> a.list[k]]
       /\ \A k \in 1..nc : tunnels[na + k] = [type |-> "custom", data |-> c.list[k]]

\* The provisioned source failed and the custom source returned one session.
C10_OneSourceFailed ==
  /\ lastFetch.done
  /\ ~lastFetch.api.ok
  /\ lastFetch.custom.ok
  /\ Len(lastFetch.custom.list) = 1
  /\ Len(tunnels) = 1

\* The lines of the scenario of C11: "launched", then "mapping started", of session 7.
ScenarioLaunched == [tunnel_id |-> 7, message |-> MsgLaunched, src |-> "api"]
ScenarioSuccess == [tunnel_id |-> 7, message |-> MsgSuccess, src |-> "api"]

\* The scenario has run to its end: the remote catalog is [provisioned 7,
\* http, "a.example.com"], the log stream was "launched", "mapping started"
\* with no clear, the engine is subscribed and the lookup fetched the catalog
\* and has answered.
ScenarioDone ==
  /\ remoteApi = <<HttpTunnel>>
  /\ engineMounted
  /\ nClear = 0
  /\ obs.natives = <<ScenarioLaunched, ScenarioSuccess>>
  /\ microQ = <<>> /\ fetching = <<>>
  /\ 7 \in DOMAIN tunnelCache.data

\* The buffer holds exactly one line of the launcher for session 7, and it
\* mentions "a.example.com".
ScenarioLine ==
  LET K == {k \in DOMAIN logs : logs[k].src = "launcher"}
  IN /\ Cardinality(K) = 1
     /\ \A k \in K : /\ logs[k].tunnel_id = 7
                     /\ includes(logs[k].message, "a.example.com")
                     /\ includes(logs[k].message, TAG)

\* The line was synthesized and one success toast was raised.
ScenarioOutcome == ScenarioLine /\ obs.allToasts[7] = 1

C12_CursorMonotonicNoReprocessing ==
  [][/\ processedLogsCount' >= processedLogsCount
     /\ \A n \in DOMAIN obs'.times : obs'.times[n] <= 1]_vars

\* After a clear and a re-subscription the engine processed a further line.
C12_ProcessedAfterResubscribe ==
  /\ nClear = 1
  /\ nTab = 1
  /\ obs.times # <<>>
  /\ obs.times[Len(obs.times)] = 1
  /\ processedLogsCount >= 2

\* C13: once a lookup started by a "mapping started" line of session 7 has
\* fetched the session's metadata and every lookup has answered, a friendly
\* line for session 7 has been appended, whatever the session's protocol
\* (with the link for http/https, generic otherwise).
C13_FriendlyLineForEveryProtocol ==
  (/\ 7 \in DOMAIN tunnelCache.data
   /\ nClear = 0
   /\ microQ = <<>> /\ fetching = <<>>)
  => \E k \in DOMAIN history :
        /\ history[k].src = "launcher"
        /\ history[k].tunnel_id = 7
        /\ includes(history[k].message, OKWORD)

\* C14: for each session, counted since the session's own "launched" line:
\* if the engine processed, while not suppressed, one or more of the
\* session's "startup failed" lines, they raised exactly one error toast.
C14_OneErrorToastPerEpoch ==
  \A o \in Origins : obs.oErrLive[o] => obs.oErrToasts[o] = 1

\* C15: a listener call made while activeTab is "tunnels" raises no toast
\* and adds nothing to the success-notified and failure-notified sets (an id
\* leaves them only through the epoch reset of a processed "launched" line);
\* for a native line or a clear, the cursor, the synthesized-this-epoch set
\* and the lookups started are what the same call would give on "home".  The
\* sets therefore hold exactly the ids toasted this epoch, and a success
\* (failure) line processed on "home" when no success (error) toast was
\* raised for its id this epoch raises one.
C15_SuppressionFrame ==
  [][/\ activeTab' = "tunnels" =>
          /\ obs'.allToasts = obs.allToasts
          /\ obs'.allErrToasts = obs.allErrToasts
          /\ notifiedSuccess' \subseteq notifiedSuccess
          /\ notifiedError' \subseteq notifiedError
          /\ \A id \in (notifiedSuccess \ notifiedSuccess') \cup (notifiedError \ notifiedError') :
                obs'.epoch[id] > obs.epoch[id]
          /\ (nNative' > nNative \/ nClear' > nClear) =>
                LET home == listener(CurEngine, logs', "home")
                IN /\ processedLogsCount' = home.count
                   /\ successLogAdded' = home.sla
                   /\ microQ' = home.microQ
                   /\ fetching' = home.fetching
                   /\ obs'.epoch = home.obs.epoch
     /\ \A id \in TunnelIds :
          /\ id \in notifiedSuccess' <=> obs'.toasts[id] >= 1
          /\ id \in notifiedError' <=> obs'.errToasts[id] >= 1
     /\ (/\ activeTab' = "home" /\ engineMounted /\ nNative' > nNative
         /\ processedLogsCount' > processedLogsCount
         /\ includes(logs'[Len(logs')].message, SUCCESS)
         /\ obs.toasts[logs'[Len(logs')].tunnel_id] = 0) =>
           obs'.allToasts[logs'[Len(logs')].tunnel_id]
              = obs.allToasts[logs'[Len(logs')].tunnel_id] + 1
     /\ (/\ activeTab' = "home" /\ engineMounted /\ nNative' > nNative
         /\ processedLogsCount' > processedLogsCount
         /\ includes(logs'[Len(logs')].message, FAILED)
         /\ ~includes(logs'[Len(logs')].message, SUCCESS)
         /\ obs.errToasts[logs'[Len(logs')].tunnel_id] = 0) =>
           obs'.allErrToasts[logs'[Len(logs')].tunnel_id]
              = obs.allErrToasts[logs'[Len(logs')].tunnel_id] + 1]_vars

\* A success line was processed under suppression (a lookup was started, no
\* toast, nothing marked); after the tab changed the next one raised the toast.
C15_ToastAfterSuppression ==
  /\ activeTab = "home"
  /\ nTab = 1
  /\ obs.natives = <<ScenarioSuccess, ScenarioSuccess>>
  /\ Len(logs) >= 2 /\ logs[1] = ScenarioSuccess /\ logs[2] = ScenarioSuccess
  /\ obs.times[1] = 1 /\ obs.times[2] = 1
  /\ obs.quiet[7]
  /\ obs.allToasts[7] = 1

\* C16: whenever the native command of a settled call rejected or threw,
\* isTunnelRunning returned false, getRunningTunnels returned the empty
\* list and resolveDomainToIp returned null, while startTunnel and stopTunnel
\* rejected with the native layer's error; only those two ever reject.
C16_FailurePolicyPerMethod ==
  \A i \in DOMAIN settled :
     LET call == settled[i]
     IN /\ call.native.k \in {"reject", "throw"} =>
             CASE call.method = "isTunnelRunning" -> call.result = Returned(JsBool(FALSE))
               [] call.method = "getRunningTunnels" -> call.result = Returned(JsArr(<<>>))
               [] call.method = "resolveDomainToIp" -> call.result = Returned(JsNull)
               [] OTHER -> call.result = Rejected(call.native.v)
        /\ call.result.k = "rejected" => call.method \in {"startTunnel", "stopTunnel"}

\* A status query whose native command failed, then a start that rejected.
C16_QueryFailedStartRejected ==
  /\ Len(settled) = 2
  /\ settled[1].method = "isTunnelRunning"
  /\ settled[1].native.k = "reject"
  /\ settled[1].result.k = "returned"
  /\ settled[2].method = "startTunnel"
  /\ settled[2].native.k = "reject"
  /\ settled[2].result.k = "rejected"

\* The stored preference is absent, is not JSON, or is JSON for something
\* other than an object.
notAnObject(item) ==
  \/ ~item.present
  \/ ~JSONparse(item.text).ok
  \/ JSONparse(item.text).value.t # "object"

\* C17: startTunnel always gets as far as its start request: no call of it
\* settles without the request having been issued, and with the preference
\* absent, malformed or not an object the request carries no proxy URL,
\* multiplexing on, forced TLS off and the alternate transport off.
C17_StartIssuedWithDefaults ==
  /\ ENABLED (\E id \in TunnelIds : startTunnel(id)) <=> (ipc = NoCall /\ Len(settled) < MaxCalls)
  /\ \A i \in DOMAIN settled :
        settled[i].method = "startTunnel" => settled[i].cmd = "start_frpc"
  /\ \A call \in {ipc} \cup {settled[i] : i \in DOMAIN settled} :
        (call.method = "startTunnel" /\ notAnObject(frpc_proxy_config)) =>
           /\ call.cmd = "start_frpc"
           /\ call.config.http_proxy = NoProxy
           /\ call.config.tcp_mux = JsBool(TRUE)
           /\ call.config.force_tls = JsBool(FALSE)
           /\ call.config.kcp_optimization = JsBool(FALSE)

\* The stored text is cut-off JSON and the start request is in flight.
C17_MalformedPreferenceStartIssued ==
  /\ frpc_proxy_config = Stored("{enabled:")
  /\ ipc.method = "startTunnel"
  /\ ipc.cmd = "start_frpc"

\* C18: a clear leaves the buffer empty, and the snapshot last handed to
\* every listener subscribed at that moment is the empty one, handed by
\* that very call.
C18_ClearEmptiesAndNotifiesAll ==
  [][nClear' > nClear =>
       /\ logs' = <<>>
       /\ \A l \in listeners : lastSeen'[l].snap = <<>> /\ lastSeen'[l].ver = ver'
       /\ ver' = ver + 1]_vars

\* Both viewers had subscribed and lines had arrived when the buffer was
\* cleared; each viewer's last snapshot is the empty one of the clear.
C18_ClearedWithTwoViewers ==
  /\ nClear = 1
  /\ nNative + nAdd >= 2
  /\ logs = <<>>
  /\ listeners = Viewers
  /\ \A l \in Viewers : lastSeen[l].snap = <<>> /\ lastSeen[l].ver = ver /\ subAt[l] < ver - 1

\* C19: a snapshot held by a consumer that is not subscribed is changed by
\* no append, eviction or clear, and a step that is not an append or a clear
\* (a consumer fetching, subscribing, leaving, or changing its snapshot)
\* changes neither the buffer nor the snapshot of more than one consumer.
C19_SnapshotsAreIndependentCopies ==
  [][/\ ver' > ver => \A l \in Listeners \ listeners : lastSeen'[l] = lastSeen[l]
     /\ ver' = ver =>
          /\ logs' = logs
          /\ Cardinality({l \in Listeners : lastSeen'[l] # lastSeen[l]}) <= 1]_vars

\* After a consumer emptied its array the buffer still holds its lines, and
\* the other subscribed viewer, notified by the same call, sees an empty
\* array although the buffer is not empty.
C19_OtherViewerSeesEdit ==
  /\ listeners = Viewers
  /\ logs # <<>>
  /\ \A l \in Viewers : lastSeen[l].ver = ver /\ ver > subAt[l] /\ lastSeen[l].snap = <<>>

\* C20: with a provisioned entry in the auto-start list and no token, no
\* step makes a "toggle on" call for any session, no autoStart() call gets
\* past the check, and every autoStart() call that ends has set the flag.
C20_NoStartWithoutToken ==
  [][((\E k \in DOMAIN autoStartList : autoStartList[k][1] = "api") /\ ~usertoken) =>
        /\ \A key \in DOMAIN toggles' : toggles'[key] = 0
        /\ \A r \in DOMAIN runs' : runs'[r].pc = "list"
        /\ Len(runs') < Len(runs) => hasAutoStarted']_vars

\* The list holds a custom entry before a provisioned one, there is no
\* token, the catalog is loaded with the custom session in it, and the one
\* autoStart() call has ended with the flag set.
C20_MixedListNoTokenDone ==
  /\ autoStartList = <<<<"custom", 7>>, <<"api", 7>>>>
  /\ ~usertoken
  /\ hasAutoStarted
  /\ runs = <<>>
  /\ ~loading
  /\ \E k \in DOMAIN tunnels : tunnels[k].type = "custom"

\* C21: every "toggle on" call of auto-start is for an entry of the current
\* catalog whose key is in the auto-start set and not in runningTunnels,
\* that was not toggled before, and every entry before it in the catalog
\* that is in the set and not running was toggled before it.
C21_TogglesFollowCatalogAndRunningSet ==
  [][\A key \in DOMAIN toggles :
       toggles'[key] > toggles[key] =>
         /\ toggles[key] = 0
         /\ key \in autoStartSet(autoStartList)
         /\ key \notin runningTunnels
         /\ \E i \in DOMAIN tunnels :
              /\ tunnelKey(tunnels[i]) = key
              /\ \A j \in 1..(i - 1) :
                   LET before == tunnelKey(tunnels[j])
                   IN (before \in autoStartSet(autoStartList) /\ before \notin runningTunnels)
                         => toggles[before] > 0]_vars

\* C22: an autoStart() call begins only in a commit that leaves the catalog
\* non-empty and the loading flag false, and while the loading flag is set
\* or the catalog is empty no call gets its auto-start list and no session
\* is toggled.
C22_NoAutoStartWhileLoading ==
  [][/\ Len(runs') > Len(runs) => (~loading' /\ Len(tunnels') > 0)
     /\ (loading \/ Len(tunnels) = 0) =>
          /\ toggles' = toggles
          /\ \A r \in DOMAIN runs :
               runs[r].pc = "list" => (r \in DOMAIN runs' /\ runs'[r] = runs[r])]_vars

\* C23: whenever autoStart() calls are in flight they all end and the flag
\* is set; every step that ends a call (empty list, no token, loop run to
\* its end, rejected list request, throwing toggle) sets the flag; and once
\* the flag is set no step starts a call, so no later trigger toggles.
C23_EveryRunSetsFlagNoRetry ==
  /\ (runs # <<>>) ~> (runs = <<>> /\ hasAutoStarted)
  /\ [][Len(runs') < Len(runs) => hasAutoStarted']_vars
  /\ [][hasAutoStarted => (hasAutoStarted' /\ Len(runs') <= Len(runs))]_vars

\* A call toggled a session and ended, the flag is set, and the load that
\* was in flight has since published its catalog and finished.
C23_DoneAfterToggle ==
  /\ hasAutoStarted
  /\ runs = <<>>
  /\ toggles["api_7"] = 1
  /\ loads = <<>>
  /\ lastFetch.done
\* C24: after a status check completed, runningTunnels is exactly the set of
\* keys of that check's catalog whose query answered true; nothing of the set
\* it replaced is kept.
C24_RunningSetReplacedWholesale ==
  lastPass.kind # "none" =>
    runningTunnels = {tunnelKey(lastPass.cat[i]) : i \in lastPass.yes}

\* A check over a catalog without the provisioned session replaced a set
\* that held that session's key.
C24_DepartedKeyDropped ==
  /\ lastPass.kind # "none"
  /\ "api_7" \in lastPass.prev
  /\ \A i \in DOMAIN lastPass.cat : tunnelKey(lastPass.cat[i]) # "api_7"
  /\ runningTunnels = {"custom_7"}

\* C25: a periodic and a reactive check that are in flight together both
\* run to their end; the one that ends leaves the other in flight untouched
\* and runningTunnels becomes its own result, so the set is the result of
\* the check that ended last.
C25_OverlappingChecksLastWins ==
  /\ (\E i, j \in DOMAIN passes :
         passes[i].kind = "periodic" /\ passes[j].kind = "reactive")
       ~> (passes = <<>>)
  /\ [][Len(passes') < Len(passes) =>
          \E j \in DOMAIN passes :
             /\ passes' = Remove(passes, j)
             /\ lastPass'.kind = passes[j].kind
             /\ lastPass'.cat = passes[j].cat
             /\ passes[j].yes \subseteq lastPass'.yes
             /\ runningTunnels' =
                  {tunnelKey(passes[j].cat[i]) : i \in lastPass'.yes}]_vars

\* A periodic and a reactive check in flight together, each past its first
\* query, with different findings so far.
C25_BothInFlight ==
  \E i, j \in DOMAIN passes :
     /\ passes[i].kind = "periodic" /\ passes[i].idx = 2
     /\ passes[j].kind = "reactive" /\ passes[j].idx = 2
     /\ passes[i].running = {"api_7"}
     /\ passes[j].running = {}

\* C26: a periodic check whose timer was cleared while the check was in
\* flight never calls setRunningTunnels: no completed check that replaced
\* runningTunnels had been started by a timer cleared before it ended.
C26_ClearedTimerResultIgnored == ~lastPass.stale

\* The check of a cleared timer replaced runningTunnels with the key of a
\* session that is no longer in the catalog.
C26_StaleResultPublished ==
  /\ lastPass.stale
  /\ "api_7" \in runningTunnels
  /\ \A i \in DOMAIN tunnels : tunnelKey(tunnels[i]) # "api_7"
  /\ loads = <<>>

\* C27: every "tunnel-auto-restarted" event that the handler receives starts
\* one check in the same step, over the catalog of that moment, whatever the
\* catalog was when the handler was registered; the check queries the
\* sessions of that catalog and no other.
C27_SignalChecksCurrentCatalog ==
  /\ [][nSignals' > nSignals =>
          IF Len(tunnels) = 0
          THEN /\ passes' = passes
               /\ lastPass'.kind = "reactive"
               /\ lastPass'.cat = <<>>
               /\ runningTunnels' = {}
          ELSE /\ Len(passes') = Len(passes) + 1
               /\ passes'[Len(passes')].kind = "reactive"
               /\ passes'[Len(passes')].cat = tunnels
               /\ passes'[Len(passes')].idx = 1]_vars
  /\ [](\A j \in DOMAIN passes :
          passes[j].kind = "reactive" =>
             /\ passes[j].idx \in 1..Len(passes[j].cat)
             /\ passes[j].running \subseteq
                  {tunnelKey(passes[j].cat[i]) : i \in 1..(passes[j].idx - 1)})

\* A reactive check is in flight over a catalog that the load published
\* after mount: it holds a custom session, which no first render shows.
C27_ReactiveOverLoadedCatalog ==
  /\ lastFetch.done
  /\ \E j \in DOMAIN passes :
        /\ passes[j].kind = "reactive"
        /\ passes[j].cat = tunnels
        /\ passes[j].idx = 2
        /\ tunnelKey(passes[j].cat[2]) = "custom_7"

\* C28: at most one interval timer is live, one is live exactly while the
\* catalog is not empty, and no step issues a query of a periodic check
\* (the first one when the timer fires, the next one when the one before
\* has answered) while the catalog is empty.
C28_NoPollingWhileEmpty ==
  /\ [](Len(interval) <= 1 /\ (interval # <<>> <=> Len(tunnels) > 0))
  /\ [][(\/ nTicks' > nTicks
          \/ /\ Len(passes') = Len(passes)
             /\ \E j \in DOMAIN passes :
                   /\ passes[j].kind = "periodic"
                   /\ passes'[j].idx = passes[j].idx + 1)
         => Len(tunnels) > 0]_vars

\* The catalog is empty and a periodic check is awaiting its second query.
C28_QueryOverEmptyCatalog ==
  /\ tunnels = <<>>
  /\ interval = <<>>
  /\ \E j \in DOMAIN passes :
        passes[j].kind = "periodic" /\ passes[j].idx = 2 /\ passes[j].stale

\* C29: once loadTunnels has completed, the cache from which the engine's
\* getTunnelById answers holds exactly the provisioned tunnels that this
\* load fetched and its updatedAt is the time of the load.
C29_LoadRefreshesEngineCache ==
  (lastFetch.done /\ loads = <<>>) =>
    /\ DOMAIN tunnelCache.data =
         {settle(lastFetch.api)[k].id : k \in DOMAIN settle(lastFetch.api)}
    /\ tunnelCache.updatedAt = now

\* The load fetched tunnel 7, published it and completed; the engine's cache
\* is as it was constructed.
C29_EngineCacheUntouched ==
  /\ lastFetch.done /\ loads = <<>>
  /\ tunnelListCache = <<[id |-> 7]>>
  /\ tunnelCache = [updatedAt |-> 0, data |-> <<>>]
  /\ engineMounted

\* C30: a lookup started less than 30000ms after the refresh that stamped
\* the cache starts no fetchTunnels(), whatever list that refresh stored and
\* however many success lines are processed; a lookup answered from the cache
\* is one started less than 30000ms after that refresh.
C30_FreshCacheAnswersWithoutFetch ==
  [][LET refreshed == tunnelCache.updatedAt > 0
         fresh == refreshed /\ now - tunnelCache.updatedAt < CacheTtl
     IN /\ Len(fetching') > Len(fetching) => ~fresh
        /\ Len(microQ') > Len(microQ) => fresh]_vars

\* A refresh stored an empty list; a lookup made 29999ms later is fetching.
C30_FetchInsideTtl ==
  /\ tunnelCache.updatedAt = StartTime
  /\ tunnelCache.data = <<>>
  /\ now = StartTime + CacheTtl - 1
  /\ \E i \in DOMAIN fetching : fetching[i].at = now

\* C31: for a native line handed to the subscribed engine: a line with the
\* launched marker starts a new epoch before its other markers are looked at,
\* so, unsuppressed, launched with success always raises a success toast and
\* launched with failure alone always raises a failure toast; a line with
\* both the success and the failure marker raises no failure toast and does
\* not add the session to notifiedError, and unsuppressed it leaves the
\* session success-notified.
C31_MarkerPriority ==
  [][(nNative' > nNative /\ Engine \in listeners) =>
       LET log == history'[Len(history')]
           m == log.message
           id == log.tunnel_id
           unsuppressed == activeTab # "tunnels"
       IN /\ includes(m, LAUNCHED) => obs'.epoch[id] = obs.epoch[id] + 1
          /\ (includes(m, LAUNCHED) /\ includes(m, SUCCESS) /\ unsuppressed) =>
                /\ obs'.allToasts[id] = obs.allToasts[id] + 1
                /\ id \in notifiedSuccess'
          /\ (includes(m, LAUNCHED) /\ ~includes(m, SUCCESS) /\ includes(m, FAILED)
                /\ unsuppressed) =>
                /\ obs'.allErrToasts[id] = obs.allErrToasts[id] + 1
                /\ id \in notifiedError'
                /\ id \notin notifiedSuccess'
          /\ (includes(m, SUCCESS) /\ includes(m, FAILED)) =>
                /\ obs'.allErrToasts[id] = obs.allErrToasts[id]
                /\ notifiedError' \subseteq notifiedError
                /\ unsuppressed => id \in notifiedSuccess'
                /\ (unsuppressed /\ id \notin notifiedSuccess) =>
                      obs'.allToasts[id] = obs.allToasts[id] + 1]_vars

\* After a success toast, a line with the launched and the success marker
\* raised a second one, and a line with the success and the failure marker
\* came last and raised nothing.
C31_MixedLinesProcessed ==
  /\ Engine \in listeners
  /\ activeTab = "home"
  /\ Len(history) = 3
  /\ history[2].message = {LAUNCHED, SUCCESS, OKWORD}
  /\ history[3].message = {SUCCESS, OKWORD, FAILED}
  /\ obs.allToasts[7] = 2
  /\ obs.allErrToasts[7] = 0
  /\ obs.times = <<1, 1, 1>>

\* C32: with no clear, every line appended after the engine subscribed has
\* been processed by the engine's loop, also the lines appended once the
\* buffer holds maxLogs lines.
C32_EveryLineProcessed ==
  (Engine \in listeners /\ nClear = 0) =>
    \A n \in DOMAIN obs.times : n > subAt[Engine] => obs.times[n] >= 1

\* The engine was subscribed on the home tab before the first line; the fifth
\* line, a failure line appended to the full buffer, was not processed and
\* raised no toast.
C32_MarkerLostAtCapacity ==
  /\ Engine \in listeners /\ subAt[Engine] = 0 /\ activeTab = "home"
  /\ nClear = 0
  /\ Len(history) = maxLogs + 1
  /\ includes(history[maxLogs + 1].message, FAILED)
  /\ \A k \in 1..maxLogs : ~includes(history[k].message, FAILED)
  /\ obs.times[maxLogs + 1] = 0
  /\ obs.allErrToasts[7] = 0

\* C33: when the engine was subscribed before the last clear, the first line
\* appended after that clear has been processed by the engine's loop,
\* however many lines the engine had processed before the clear.
C33_FirstLineAfterClearProcessed ==
  (/\ Engine \in listeners
   /\ nClear >= 1
   /\ history # <<>>
   /\ subAt[Engine] < ver - Len(history)) =>
    obs.times[Len(obs.times) - Len(history) + 1] >= 1

\* The engine processed two lines, the buffer was cleared, and the success
\* line appended next was not processed and raised no toast.
C33_CursorAheadAfterClear ==
  /\ Engine \in listeners /\ subAt[Engine] = 0 /\ activeTab = "home"
  /\ nClear = 1
  /\ Len(history) = 1
  /\ includes(history[1].message, SUCCESS)
  /\ processedLogsCount = 2
  /\ Len(logs) = 1
  /\ obs.times = <<1, 1, 0>>
  /\ obs.allToasts[7] = 0

\* C34: whenever an auto-start call comes out of its 1000ms wait and reads
\* runningTunnels, the value it reads was written by a completed status
\* check of loadTunnels over the catalog now shown, and no such check is
\* still in flight.
C34_AutoStartReadsCompletedCheck ==
  [][(Cardinality({r \in DOMAIN runs : runs[r].pc = "wait"})
        > Cardinality({r \in DOMAIN runs' : runs'[r].pc = "wait"})) =>
       /\ lastPass.kind = "load"
       /\ lastPass.cat = tunnels
       /\ \A k \in DOMAIN loads : loads[k].pc # "status"]_vars

\* Auto-start toggled the provisioned session 7 on, and the only status
\* check made, that of the mount's load, then reported it as running.
C34_ToggledBeforeCheckEnded ==
  /\ nLoads = 1 /\ loads = <<>>
  /\ lastPass.kind = "load"
  /\ lastPass.prev = {}
  /\ "api_7" \in runningTunnels
  /\ toggles["api_7"] = 1
  /\ hasAutoStarted

\* C35: a friendly line is built from the metadata of the provisioned
\* session only for a success line of that session: as long as the
\* provisioned session 7 has emitted no success line, the buffer history
\* holds no friendly line, whatever the custom session 7 emitted.
C35_FriendlyLineOfSameSession ==
  (\A k \in DOMAIN obs.natives :
      obs.natives[k].src = "api" => ~includes(obs.natives[k].message, SUCCESS))
    => \A n \in DOMAIN history : history[n].src # "launcher"

\* The only native line is a success line of the custom session 7; the
\* friendly line appended for it names the provisioned tunnel "web" and its
\* domain.
C35_CustomLineGetsProvisionedLink ==
  /\ Len(obs.natives) = 1
  /\ obs.natives[1].src = "custom"
  /\ Len(history) = 2
  /\ history[2].src = "launcher"
  /\ history[2].message = friendlyMessage(HttpTunnel.name, HttpTunnel.dorp)

\* C36: however startListening is called, at most one "frpc-log" listener
\* is registered or being registered, and every event that the native layer
\* delivers is appended to the buffer once: the history grows by that line
\* alone.
C36_OneNativeListener ==
  /\ [](frpcLog.live + frpcLog.pending <= 1)
  /\ [][nNative' > nNative =>
          /\ Len(history') = Len(history) + 1
          /\ history'[Len(history')] = obs'.natives[Len(obs'.natives)]
          /\ ver' = ver + 1]_vars

\* startListening was called a second time while the first call's listen()
\* was pending; one listener is registered and has appended two events.
C36_CalledTwiceOneListener ==
  /\ frpcLog.calls = 2
  /\ frpcLog.overlap
  /\ frpcLog.live = 1 /\ frpcLog.pending = 0
  /\ nNative = 2
  /\ Len(history) = 2

\* C37: once the cleanup of the listener effect has run, no listener stays
\* registered, also when listen() resolves only afterwards, and no
\* "tunnel-auto-restarted" event runs the handler.
C37_ListenerDetachedAfterTeardown ==
  /\ [](unlistenFn # "leaked")
  /\ [][(unlistenFn \in {"detached", "tornPending", "leaked"}) => (nSignals' = nSignals)]_vars

\* The cleanup ran while listen() was pending; the listener was registered
\* afterwards and an event has started a check.
C37_HandlerRunsAfterTeardown ==
  /\ unlistenFn = "leaked"
  /\ interval = <<>>
  /\ nSignals = 1
  /\ \E j \in DOMAIN passes : passes[j].kind = "reactive"

\* C38: the friendly line the engine appends is delivered to the engine and
\* starts no lookup, whatever markers the tunnel's name and link put into it:
\* the step that appends it only retires the lookup that produced it, and
\* the history never holds more friendly lines than native success lines.
C38_FriendlyLineStartsNoLookup ==
  /\ [](Cardinality({k \in DOMAIN history : history[k].src = "launcher"})
          <= Cardinality({k \in DOMAIN obs.natives : includes(obs.natives[k].message, SUCCESS)}))
  /\ [][(Len(history') = Len(history) + 1 /\ history'[Len(history')].src = "launcher")
          => (Len(fetching') + Len(microQ') = Len(fetching) + Len(microQ) - 1)]_vars

\* The engine has processed a friendly line that includes "映射启动成功" and
\* "frpc 进程已启动", and no lookup is left.
C38_MarkedFriendlyLineProcessed ==
  /\ Engine \in listeners
  /\ \E k \in DOMAIN history :
        /\ history[k].src = "launcher"
        /\ includes(history[k].message, SUCCESS)
        /\ includes(history[k].message, LAUNCHED)
        /\ obs.times[k] >= 1
  /\ fetching = <<>> /\ microQ = <<>>

\* C39: a lookup whose fetch is rejected leaves tunnelCacheRef as it was and
\* answers with the entry of the cache it read before the fetch: the friendly
\* line of that entry, if it is an http(s) tunnel, is the only line the step
\* may append, and nothing is appended when that cache has no entry for the
\* session.
C39_FailedFetchAnswersFromStaleCache ==
  [][(Outage /\ Len(fetching') < Len(fetching)) =>
       /\ tunnelCache' = tunnelCache
       /\ \E i \in DOMAIN fetching :
            LET task == fetching[i]
                lines == friendlyLines(task.tunnelId, task.res)
            IN /\ fetching' = Remove(fetching, i)
               /\ history' = history \o lines
               /\ (task.res = <<>> => history' = history)]_vars

\* Two lookups read the empty cache; the fetch of one resolved and filled
\* it, the fetch of the other was rejected during the outage and appended no
\* line.
C39_RejectedLookupAppendsNothing ==
  /\ Outage
  /\ fetching = <<>> /\ microQ = <<>>
  /\ Len(obs.natives) = 3
  /\ includes(obs.natives[1].message, SUCCESS)
  /\ includes(obs.natives[2].message, LAUNCHED)
  /\ includes(obs.natives[3].message, SUCCESS)
  /\ obs.spawn[7] = 1
  /\ tunnelCache = [updatedAt |-> StartTime, data |-> MapOf(<<HttpTunnel>>)]
  /\ Cardinality({k \in DOMAIN history : history[k].src = "launcher"}) = 1

====
